---- MODULE Spec2Model ----
(***************************************************************************)
(* CodeGuardian: the finding-lifecycle pipeline.                           *)
(*                                                                         *)
(*   - core/deduplication.py  fingerprinting, duplicate merging, noise     *)
(*   - core/risk_scorer.py    sub-scores, composite score, level, sorting  *)
(*   - core/suppression.py    the five ordered suppression rules           *)
(*   - core/complete_pipeline.py, core/production_pipeline.py              *)
(*                            the two stage graphs and their state         *)
(*                                                                         *)
(* A Python str is modelled as the sequence of its characters (each a      *)
(* one-character string), a dict key that may be missing as an option      *)
(* (<<>> when the key is absent, <<v>> when it holds v), and a float as    *)
(* the IEEE-754 double it is (see the section on doubles).                 *)
(***************************************************************************)
EXTENDS Naturals, Integers, Sequences, FiniteSets, Bags, TLC

(***************************************************************************)
(* Python values                                                           *)
(***************************************************************************)

\* dict key absent / present
NoKey == <<>>
Some(v) == <<v>>
\* dict.get(key, default)
Get(opt, default) == IF opt = NoKey THEN default ELSE opt[1]

\* the value of a 'line' key: None or an int
PyNone == [isNone |-> TRUE, int |-> 0]
PyInt(n) == [isNone |-> FALSE, int |-> n]

Digits == <<"0", "1", "2", "3", "4", "5", "6", "7", "8", "9">>
IsDigit(c) == \E d \in 1..10 : Digits[d] = c

\* str(n) for an int n >= 0
RECURSIVE IntToStr(_)
IntToStr(n) ==
    IF n < 10 THEN <<Digits[n + 1]>>
    ELSE IntToStr(n \div 10) \o <<Digits[(n % 10) + 1]>>

\* str(v) as an f-string formats a line value
PyStr(v) == IF v.isNone THEN <<"N", "o", "n", "e">> ELSE IntToStr(v.int)

UpperAlpha == <<"A", "B", "C", "D", "E", "F", "G", "H", "I", "J", "K", "L", "M",
                "N", "O", "P", "Q", "R", "S", "T", "U", "V", "W", "X", "Y", "Z">>
LowerAlpha == <<"a", "b", "c", "d", "e", "f", "g", "h", "i", "j", "k", "l", "m",
                "n", "o", "p", "q", "r", "s", "t", "u", "v", "w", "x", "y", "z">>

LowerChar(c) ==
    IF \E i \in 1..26 : UpperAlpha[i] = c
    THEN LowerAlpha[CHOOSE i \in 1..26 : UpperAlpha[i] = c]
    ELSE c

\* str.lower()
StrLower(s) == [i \in 1..Len(s) |-> LowerChar(s[i])]

\* kw in s
Contains(s, kw) ==
    \E i \in 0..(Len(s) - Len(kw)) : \A j \in 1..Len(kw) : s[i + j] = kw[j]

\* any(kw in s for kw in kws)
ContainsAny(s, kws) == \E k \in 1..Len(kws) : Contains(s, kws[k])

\* s starts with lit at position i
LiteralAt(s, i, lit) ==
    /\ i + Len(lit) - 1 <= Len(s)
    /\ \A j \in 1..Len(lit) : s[i + j - 1] = lit[j]

IsSpace(c) == c \in {" ", "\t", "\n", "\r"}

\* str.strip()
Strip(s) ==
    IF \A i \in 1..Len(s) : IsSpace(s[i]) THEN <<>>
    ELSE LET a == CHOOSE i \in 1..Len(s) :
                    /\ ~IsSpace(s[i])
                    /\ \A j \in 1..(i - 1) : IsSpace(s[j])
             b == CHOOSE i \in 1..Len(s) :
                    /\ ~IsSpace(s[i])
                    /\ \A j \in (i + 1)..Len(s) : IsSpace(s[j])
         IN SubSeq(s, a, b)

\* s[:n]
Prefix(s, n) == IF Len(s) <= n THEN s ELSE SubSeq(s, 1, n)

(***************************************************************************)
(* The three regular expressions of create_fingerprint.  Each Match        *)
(* operator gives the position right after the match that starts at i,     *)
(* or 0 when the expression does not match there.                          *)
(***************************************************************************)

\* the least element of a non-empty set of positions
Least(S) == CHOOSE i \in S : \A j \in S : i <= j

\* the first position at or after i that holds no digit
DigitRunEnd(s, i) ==
    Least({j \in i..(Len(s) + 1) : j > Len(s) \/ ~IsDigit(s[j])})

\* \d+:
MatchNumber(s, i) ==
    IF i <= Len(s) /\ IsDigit(s[i])
    THEN LET j == DigitRunEnd(s, i)
         IN IF j <= Len(s) /\ s[j] = ":" THEN j + 1 ELSE 0
    ELSE 0

\* line \d+:
MatchLineNumber(s, i) ==
    IF LiteralAt(s, i, <<"l", "i", "n", "e", " ">>) THEN MatchNumber(s, i + 5) ELSE 0

\* the first "]" at or after i on the same line (0 if there is none)
FirstClose(s, i) ==
    LET stops == {j \in i..Len(s) : s[j] = "]" \/ s[j] = "\n"}
    IN IF stops = {} THEN 0
       ELSE IF s[Least(stops)] = "]" THEN Least(stops) ELSE 0

\* \[b\d+:.*?\]
MatchBanditCode(s, i) ==
    IF LiteralAt(s, i, <<"[", "b">>)
    THEN LET k == MatchNumber(s, i + 2)
         IN IF k = 0 THEN 0
            ELSE LET c == FirstClose(s, k) IN IF c = 0 THEN 0 ELSE c + 1
    ELSE 0

MatchAt(kind, s, i) ==
    CASE kind = "bandit" -> MatchBanditCode(s, i)
      [] kind = "line" -> MatchLineNumber(s, i)
      [] kind = "number" -> MatchNumber(s, i)

\* re.sub(pattern, '', s): every leftmost non-overlapping match removed,
\* scanning from position i on
RECURSIVE ReSubFrom(_, _, _)
ReSubFrom(kind, s, i) ==
    LET starts == {j \in i..Len(s) : MatchAt(kind, s, j) # 0}
    IN IF starts = {} THEN SubSeq(s, i, Len(s))
       ELSE SubSeq(s, i, Least(starts) - 1)
                \o ReSubFrom(kind, s, MatchAt(kind, s, Least(starts)))

ReSub(kind, s) == ReSubFrom(kind, s, 1)

(***************************************************************************)
(* Findings: the dicts the detectors emit.  file and message are always    *)
(* set by the detectors; line, type and tool may be missing; the keys      *)
(* detected_by, confidence, risk_* and rag_analysis are added by later      *)
(* stages.  origin is no key of the dict: it records which function built  *)
(* it.                                                                     *)
(***************************************************************************)

Finding(origin, file, line, type, tool, message) ==
    [origin |-> origin,
     file |-> file, line |-> line, type |-> type, tool |-> tool,
     message |-> message,
     detected_by |-> NoKey, confidence |-> NoKey,
     risk_score |-> NoKey, risk_impact |-> NoKey, risk_likelihood |-> NoKey,
     risk_fix_cost |-> NoKey, risk_scope |-> NoKey, risk_level |-> NoKey,
     rag_analysis |-> NoKey]

(***************************************************************************)
(* core/deduplication.py                                                   *)
(***************************************************************************)

\* message[:50]
PrefixLen == 50

\* (mutant) the normalization without the r'\d+:' substitution
NormalizedMessage_KeepNumbers(issue) ==
    Strip(ReSub("line", ReSub("bandit", StrLower(issue.message))))

\* the message as create_fingerprint normalizes it, before truncation
NormalizedMessage(issue) ==
    Strip(ReSub("number", ReSub("line", ReSub("bandit", StrLower(issue.message)))))

\* f"{file_key}:{line_key}:{message[:50]}"
create_fingerprint(issue) ==
    issue.file \o <<":">> \o PyStr(Get(issue.line, PyInt(0))) \o <<":">>
        \o Prefix(NormalizedMessage(issue), PrefixLen)

\* issue.get('tool', issue.get('type', 'unknown'))
ToolOf(issue) == Get(issue.tool, Get(issue.type, "unknown"))

InList(x, list) == \E i \in 1..Len(list) : list[i] = x

\* (mutant) the duplicate's tool is appended whether or not it is listed
merge_duplicate_metadata_AlwaysAppend(existing, duplicate) ==
    LET tracked == IF existing.detected_by = NoKey
                   THEN <<ToolOf(existing)>>
                   ELSE existing.detected_by[1]
        merged == Append(tracked, ToolOf(duplicate))
    IN [existing EXCEPT !.detected_by = Some(merged),
                        !.confidence = Some(Len(merged))]

\* (mutant) the duplicate's tool replaces the list instead of joining it
merge_duplicate_metadata_Overwrite(existing, duplicate) ==
    [existing EXCEPT !.detected_by = Some(<<ToolOf(duplicate)>>),
                     !.confidence = Some(1)]

\* the dict `existing` after merge_duplicate_metadata(existing, duplicate)
merge_duplicate_metadata(existing, duplicate) ==
    LET tracked == IF existing.detected_by = NoKey
                   THEN <<ToolOf(existing)>>
                   ELSE existing.detected_by[1]
        duplicate_tool == ToolOf(duplicate)
        merged == IF InList(duplicate_tool, tracked)
                  THEN tracked
                  ELSE Append(tracked, duplicate_tool)
    IN [existing EXCEPT !.detected_by = Some(merged),
                        !.confidence = Some(Len(merged))]

\* (mutant) a new canonical record is put at the head of the list
DedupStep_NewestFirst(acc, issue) ==
    LET fingerprint == create_fingerprint(issue)
    IN IF fingerprint \notin acc.seen
       THEN [seen |-> acc.seen \cup {fingerprint},
             deduplicated |-> <<issue>> \o acc.deduplicated]
       ELSE LET hits == {k \in 1..Len(acc.deduplicated) :
                            create_fingerprint(acc.deduplicated[k]) = fingerprint}
            IN IF hits = {} THEN acc
               ELSE LET k == CHOOSE h \in hits : \A g \in hits : h <= g
                    IN [acc EXCEPT !.deduplicated[k] =
                            merge_duplicate_metadata(acc.deduplicated[k], issue)]

\* one iteration of the loop of deduplicate_issues; acc holds `seen` and
\* `deduplicated`
DedupStep(acc, issue) ==
    LET fingerprint == create_fingerprint(issue)
    IN IF fingerprint \notin acc.seen
       THEN [seen |-> acc.seen \cup {fingerprint},
             deduplicated |-> Append(acc.deduplicated, issue)]
       ELSE LET hits == {k \in 1..Len(acc.deduplicated) :
                            create_fingerprint(acc.deduplicated[k]) = fingerprint}
            IN IF hits = {} THEN acc
               ELSE LET k == CHOOSE h \in hits : \A g \in hits : h <= g
                    IN [acc EXCEPT !.deduplicated[k] =
                            merge_duplicate_metadata(acc.deduplicated[k], issue)]

RECURSIVE DedupLoop(_, _, _)
DedupLoop(acc, issues, i) ==
    IF i > Len(issues) THEN acc
    ELSE DedupLoop(DedupStep(acc, issues[i]), issues, i + 1)

\* the list deduplicate_issues returns
deduplicate_issues(issues) ==
    DedupLoop([seen |-> {}, deduplicated |-> <<>>], issues, 1).deduplicated

\* the caller's list after the call: the canonical records are the caller's
\* own dicts, merged into in place
IssuesAfterDedup(issues) ==
    LET out == deduplicate_issues(issues)
        fp == [i \in 1..Len(issues) |-> create_fingerprint(issues[i])]
        ofp == [k \in 1..Len(out) |-> create_fingerprint(out[k])]
    IN [i \in 1..Len(issues) |->
          IF \E j \in 1..(i - 1) : fp[j] = fp[i]
          THEN issues[i]
          ELSE out[CHOOSE k \in 1..Len(out) : ofp[k] = fp[i]]]

(***************************************************************************)
(* Doubles.  Every float the scorer computes is a non-negative IEEE-754    *)
(* double below 16 with at most 53 significant bits, hence a multiple of   *)
(* 2^-56 (the unit in the last place of 0.1).  A double is held exactly,   *)
(* as the integer x * 2^56 written in three limbs of 20 bits:              *)
(*     x * 2^56 = hi * 2^40 + mid * 2^20 + lo.                             *)
(* Sums and products are formed exactly on the limbs and then rounded to   *)
(* 53 significant bits, ties to even, as the hardware does.                *)
(***************************************************************************)

Limb == 2^20

\* the limbs after carrying: each limb but the top one below 2^20
Carry(hi, mid, lo) ==
    LET mid2 == mid + (lo \div Limb)
    IN [hi |-> hi + (mid2 \div Limb), mid |-> mid2 % Limb, lo |-> lo % Limb]

\* the number of bits of n
RECURSIVE BitLen(_)
BitLen(n) == IF n = 0 THEN 0 ELSE 1 + BitLen(n \div 2)

\* an exact value rounded to the nearest double (53 bits, ties to even)
RoundDouble(x) ==
    LET q == BitLen(x.hi) + 40 - 53
    IN IF q <= 0 THEN x
       ELSE LET unit == 2^q
                rem == x.lo % unit
                down == x.lo - rem
                up == \/ 2 * rem > unit
                      \/ 2 * rem = unit /\ (down \div unit) % 2 = 1
            IN Carry(x.hi, x.mid, IF up THEN down + unit ELSE down)

\* the literals of score_issue: float.hex() gives 0x1.999999999999ap-4 for
\* 0.1 (and p-3, p-2 for 0.2, 0.4) and 0x1.3333333333333p-2 for 0.3
Double01 == [hi |-> 6553, mid |-> 629145, lo |-> 629146]
Double02 == [hi |-> 13107, mid |-> 209715, lo |-> 209716]
Double03 == [hi |-> 19660, mid |-> 838860, lo |-> 838860]
Double04 == [hi |-> 26214, mid |-> 419430, lo |-> 419432]

\* float(k) for an int 0 <= k < 16
IntToDouble(k) == [hi |-> k * 2^16, mid |-> 0, lo |-> 0]

\* k * x for an int 0 <= k <= 10 and a double x
IntTimesDouble(k, x) == RoundDouble(Carry(k * x.hi, k * x.mid, k * x.lo))

\* x + y
DoubleAdd(x, y) == RoundDouble(Carry(x.hi + y.hi, x.mid + y.mid, x.lo + y.lo))

\* x >= y
DoubleGE(x, y) ==
    \/ x.hi > y.hi
    \/ x.hi = y.hi /\ x.mid > y.mid
    \/ x.hi = y.hi /\ x.mid = y.mid /\ x.lo >= y.lo

\* round(x, 2), given in hundredths: the decimal value nearest the exact
\* binary value of x (ties to even); the float stored is the double nearest
\* that decimal
RoundHundredths(x) ==
    LET p == Carry(100 * x.hi, 100 * x.mid, 100 * x.lo)
        whole == p.hi \div 2^16
        frac == p.hi % 2^16
        above == frac > 2^15 \/ (frac = 2^15 /\ (p.mid > 0 \/ p.lo > 0))
        tie == frac = 2^15 /\ p.mid = 0 /\ p.lo = 0
    IN IF above \/ (tie /\ whole % 2 = 1) THEN whole + 1 ELSE whole

(***************************************************************************)
(* Keywords looked for in messages and file names                          *)
(***************************************************************************)

KwSqlInjection == <<"s","q","l"," ","i","n","j","e","c","t","i","o","n">>
KwSql == <<"s","q","l">>
KwEval == <<"e","v","a","l">>
KwXss == <<"x","s","s">>
KwHardcoded == <<"h","a","r","d","c","o","d","e","d">>
KwSecret == <<"s","e","c","r","e","t">>
KwCrash == <<"c","r","a","s","h">>
KwError == <<"e","r","r","o","r">>
KwDivisionByZero == <<"d","i","v","i","s","i","o","n"," ","b","y"," ","z","e","r","o">>
KwDocstring == <<"d","o","c","s","t","r","i","n","g">>
KwRefactor == <<"r","e","f","a","c","t","o","r">>
KwLongFunction == <<"l","o","n","g"," ","f","u","n","c","t","i","o","n">>
KwFunction == <<"f","u","n","c","t","i","o","n">>
KwNaming == <<"n","a","m","i","n","g">>
KwComplexity == <<"c","o","m","p","l","e","x","i","t","y">>
KwNesting == <<"n","e","s","t","i","n","g">>
KwComment == <<"c","o","m","m","e","n","t">>
KwCritical == <<"c","r","i","t","i","c","a","l">>

(***************************************************************************)
(* core/risk_scorer.py.  A context is the dict analyze_context returns;    *)
(* the scorer and the suppression rules read its keys stage,               *)
(* is_performance_critical and has_domain_complexity.                      *)
(***************************************************************************)

\* issue.get('message', '').lower()
LowerMessage(issue) == StrLower(issue.message)

\* issue.get('type', '')
TypeOf(issue) == Get(issue.type, "")

\* mutant: without the semantic row's fallback a semantic finding that
\* mentions neither crash nor error gets the default
calculate_impact_SemanticDefault(context, issue) ==
    LET issue_type == TypeOf(issue)
        message == LowerMessage(issue)
    IN IF issue_type = "security"
       THEN IF Contains(message, KwSqlInjection) \/ Contains(message, KwEval) THEN 10
            ELSE IF Contains(message, KwXss) \/ Contains(message, KwHardcoded) THEN 8
            ELSE 7
       ELSE IF issue_type = "semantic"
               /\ (Contains(message, KwCrash) \/ Contains(message, KwError))
       THEN 7
       ELSE IF issue_type = "complexity"
       THEN IF context.stage = "Production" THEN 6 ELSE 3
       ELSE 4

calculate_impact(context, issue) ==
    LET issue_type == TypeOf(issue)
        message == LowerMessage(issue)
    IN IF issue_type = "security"
       THEN IF Contains(message, KwSqlInjection) \/ Contains(message, KwEval) THEN 10
            ELSE IF Contains(message, KwXss) \/ Contains(message, KwHardcoded) THEN 8
            ELSE 7
       ELSE IF issue_type = "semantic"
       THEN IF Contains(message, KwCrash) \/ Contains(message, KwError) THEN 7
            ELSE 5
       ELSE IF issue_type = "complexity"
       THEN IF context.stage = "Production" THEN 6 ELSE 3
       ELSE 4

\* mutant: the likelihood as a percentage
calculate_likelihood_Percent(issue) ==
    LET message == LowerMessage(issue)
    IN IF Contains(message, KwHardcoded) \/ Contains(message, KwSecret) THEN 100
       ELSE 50

\* mutant: the eval row is tried ahead of the hardcoded row
calculate_likelihood_EvalFirst(issue) ==
    LET message == LowerMessage(issue)
    IN IF Contains(message, KwEval) \/ Contains(message, KwSqlInjection) THEN 9
       ELSE IF Contains(message, KwHardcoded) \/ Contains(message, KwSecret) THEN 10
       ELSE IF Contains(message, KwDivisionByZero) THEN 7
       ELSE IF Contains(message, KwXss) THEN 6
       ELSE IF Contains(message, KwDocstring) THEN 1
       ELSE 5

calculate_likelihood(issue) ==
    LET message == LowerMessage(issue)
    IN IF Contains(message, KwHardcoded) \/ Contains(message, KwSecret) THEN 10
       ELSE IF Contains(message, KwEval) \/ Contains(message, KwSqlInjection) THEN 9
       ELSE IF Contains(message, KwDivisionByZero) THEN 7
       ELSE IF Contains(message, KwXss) THEN 6
       ELSE IF Contains(message, KwDocstring) THEN 1
       ELSE 5

\* mutant: the complexity rows are tried ahead of the refactor row
calculate_fix_cost_ComplexityFirst(issue) ==
    LET message == LowerMessage(issue)
        issue_type == TypeOf(issue)
    IN IF issue_type = "complexity"
       THEN IF Contains(message, KwLongFunction) THEN 7 ELSE 5
       ELSE IF Contains(message, KwRefactor) THEN 9
       ELSE IF Contains(message, KwDocstring) THEN 1
       ELSE IF Contains(message, KwNaming) THEN 2
       ELSE 4

calculate_fix_cost(issue) ==
    LET message == LowerMessage(issue)
        issue_type == TypeOf(issue)
    IN IF Contains(message, KwRefactor) THEN 9
       ELSE IF issue_type = "complexity"
       THEN IF Contains(message, KwLongFunction) THEN 7 ELSE 5
       ELSE IF Contains(message, KwDocstring) THEN 1
       ELSE IF Contains(message, KwNaming) THEN 2
       ELSE 4

\* mutant: the function row is tried for every type
calculate_scope_FunctionFirst(issue) ==
    LET issue_type == TypeOf(issue)
        message == LowerMessage(issue)
    IN IF Contains(message, KwFunction) THEN 3
       ELSE IF issue_type = "security"
       THEN IF Contains(message, KwSql) \/ Contains(message, KwEval) THEN 9 ELSE 6
       ELSE 5

\* mutant: eval is not taken for a wide-scope keyword
calculate_scope_SqlOnly(issue) ==
    LET issue_type == TypeOf(issue)
        message == LowerMessage(issue)
    IN IF issue_type = "security"
       THEN IF Contains(message, KwSql) THEN 9 ELSE 6
       ELSE IF Contains(message, KwFunction) THEN 3
       ELSE 5

calculate_scope(issue) ==
    LET issue_type == TypeOf(issue)
        message == LowerMessage(issue)
    IN IF issue_type = "security"
       THEN IF Contains(message, KwSql) \/ Contains(message, KwEval) THEN 9 ELSE 6
       ELSE IF Contains(message, KwFunction) THEN 3
       ELSE 5

\* mutant: the fix cost is weighed as it is, not as 10 - fix_cost
WeightedSum_FixCostNotInverted(impact, likelihood, scope, fix_cost) ==
    DoubleAdd(
        DoubleAdd(
            DoubleAdd(IntTimesDouble(impact, Double04),
                      IntTimesDouble(likelihood, Double03)),
            IntTimesDouble(scope, Double02)),
        IntTimesDouble(fix_cost, Double01))

\* impact * 0.4 + likelihood * 0.3 + scope * 0.2 + (10 - fix_cost) * 0.1,
\* the float before rounding
WeightedSum(impact, likelihood, scope, fix_cost) ==
    DoubleAdd(
        DoubleAdd(
            DoubleAdd(IntTimesDouble(impact, Double04),
                      IntTimesDouble(likelihood, Double03)),
            IntTimesDouble(scope, Double02)),
        IntTimesDouble(10 - fix_cost, Double01))

\* (mutant) LOW starts at 3
get_risk_level_LowFromThree(score) ==
    IF DoubleGE(score, IntToDouble(8)) THEN "CRITICAL"
    ELSE IF DoubleGE(score, IntToDouble(6)) THEN "HIGH"
    ELSE IF DoubleGE(score, IntToDouble(4)) THEN "MEDIUM"
    ELSE IF DoubleGE(score, IntToDouble(3)) THEN "LOW"
    ELSE "MINIMAL"

get_risk_level(score) ==
    IF DoubleGE(score, IntToDouble(8)) THEN "CRITICAL"
    ELSE IF DoubleGE(score, IntToDouble(6)) THEN "HIGH"
    ELSE IF DoubleGE(score, IntToDouble(4)) THEN "MEDIUM"
    ELSE IF DoubleGE(score, IntToDouble(2)) THEN "LOW"
    ELSE "MINIMAL"

\* the dict score_issue returns; risk_score is held in hundredths
score_issue(context, issue) ==
    LET impact == calculate_impact(context, issue)
        likelihood == calculate_likelihood(issue)
        fix_cost == calculate_fix_cost(issue)
        scope == calculate_scope(issue)
        risk_score == WeightedSum(impact, likelihood, scope, fix_cost)
    IN [issue EXCEPT !.risk_score = Some(RoundHundredths(risk_score)),
                     !.risk_impact = Some(impact),
                     !.risk_likelihood = Some(likelihood),
                     !.risk_fix_cost = Some(fix_cost),
                     !.risk_scope = Some(scope),
                     !.risk_level = Some(get_risk_level(risk_score))]

\* x.get('risk_score', 0), in hundredths
ScoreKey(issue) == Get(issue.risk_score, 0)

\* mutant: x goes ahead of the entries with an equal key
InsertDescending_AheadOfEqual(sorted, x) ==
    LET ahead == {k \in 1..Len(sorted) : ScoreKey(sorted[k]) > ScoreKey(x)}
        n == Cardinality(ahead)
    IN SubSeq(sorted, 1, n) \o <<x>> \o SubSeq(sorted, n + 1, Len(sorted))

\* x put into a list sorted by descending key, behind every entry whose key
\* is not smaller
InsertDescending(sorted, x) ==
    LET ahead == {k \in 1..Len(sorted) : ScoreKey(sorted[k]) >= ScoreKey(x)}
        n == Cardinality(ahead)
    IN SubSeq(sorted, 1, n) \o <<x>> \o SubSeq(sorted, n + 1, Len(sorted))

\* list.sort(key=risk_score, reverse=True): a stable sort, equal keys keep
\* their order
RECURSIVE SortDescendingFrom(_, _, _)
SortDescendingFrom(sorted, list, i) ==
    IF i > Len(list) THEN sorted
    ELSE SortDescendingFrom(InsertDescending(sorted, list[i]), list, i + 1)

SortByRiskScore(list) == SortDescendingFrom(<<>>, list, 1)

score_all_issues(issues, context) ==
    SortByRiskScore([i \in 1..Len(issues) |-> score_issue(context, issues[i])])

(***************************************************************************)
(* core/suppression.py.  Each rule gives the reason it suppresses the     *)
(* issue for, or "" when it does not match.                                *)
(***************************************************************************)

\* issue.get('file', '').lower()
LowerFile(issue) == StrLower(issue.file)

DomainMarkers == <<<<"p","a","r","s","e","r">>, <<"m","o","d","e","l">>, <<"c","r","y","p","t","o">>, <<"t","r","a","n","s","f","o","r","m">>>>
GeneratedMarkers == <<<<"g","e","n","e","r","a","t","e","d">>, <<"_","g","e","n",".">>, <<"m","i","g","r","a","t","i","o","n","s","/">>, <<"v","e","n","d","o","r","/">>>>
StyleKeywords == <<KwDocstring, KwNaming, KwComment>>
TestMarkers == <<<<"t","e","s","t","_">>, <<"_","t","e","s","t",".">>, <<"t","e","s","t","s","/">>>>

suppress_performance_complexity(context, issue) ==
    IF Get(issue.type, "") # "complexity" THEN ""
    ELSE IF ~context.is_performance_critical THEN ""
    ELSE IF Contains(LowerMessage(issue), KwComplexity)
            \/ Contains(LowerMessage(issue), KwNesting)
    THEN "Performance-critical code - complexity acceptable"
    ELSE ""

\* (mutant) the rule fires when the context lacks domain complexity
suppress_domain_complexity_FlagInverted(context, issue) ==
    IF Get(issue.type, "") # "complexity" THEN ""
    ELSE IF context.has_domain_complexity THEN ""
    ELSE IF ContainsAny(LowerFile(issue), DomainMarkers)
            /\ Contains(LowerMessage(issue), KwComplexity)
    THEN "Domain-heavy code - complexity expected"
    ELSE ""

suppress_domain_complexity(context, issue) ==
    IF Get(issue.type, "") # "complexity" THEN ""
    ELSE IF ~context.has_domain_complexity THEN ""
    ELSE IF ContainsAny(LowerFile(issue), DomainMarkers)
            /\ Contains(LowerMessage(issue), KwComplexity)
    THEN "Domain-heavy code - complexity expected"
    ELSE ""

suppress_generated_code(context, issue) ==
    IF ContainsAny(LowerFile(issue), GeneratedMarkers) THEN "Generated code" ELSE ""

suppress_prototype_style(context, issue) ==
    IF context.stage # "Prototype" THEN ""
    ELSE IF ContainsAny(LowerMessage(issue), StyleKeywords)
    THEN "Prototype - style not critical"
    ELSE ""

suppress_test_code_issues(context, issue) ==
    IF ~ContainsAny(LowerFile(issue), TestMarkers) THEN ""
    ELSE IF Contains(LowerMessage(issue), KwComplexity)
            \/ Contains(LowerMessage(issue), KwDocstring)
    THEN "Test code - relaxed rules"
    ELSE ""

\* the reasons of the five rules, in the order should_suppress tries them
RuleReasons(context, issue) ==
    <<suppress_performance_complexity(context, issue),
      suppress_domain_complexity(context, issue),
      suppress_generated_code(context, issue),
      suppress_prototype_style(context, issue),
      suppress_test_code_issues(context, issue)>>

\* mutant: the last rule that matches decides
should_suppress_LastMatch(context, issue) ==
    LET reasons == RuleReasons(context, issue)
        matching == {k \in 1..Len(reasons) : reasons[k] # ""}
    IN IF matching = {} THEN <<FALSE, "">>
       ELSE <<TRUE, reasons[CHOOSE k \in matching : \A j \in matching : k >= j]>>

\* (should_suppress, reason): the first rule that matches decides
should_suppress(context, issue) ==
    LET reasons == RuleReasons(context, issue)
        matching == {k \in 1..Len(reasons) : reasons[k] # ""}
    IN IF matching = {} THEN <<FALSE, "">>
       ELSE <<TRUE, reasons[CHOOSE k \in matching : \A j \in matching : k <= j]>>

\* mutant: a kept issue goes to the front of the list
RECURSIVE SuppressLoop_Prepend(_, _, _, _)
SuppressLoop_Prepend(acc, context, issues, i) ==
    IF i > Len(issues) THEN acc
    ELSE LET verdict == should_suppress(context, issues[i])
         IN SuppressLoop_Prepend(
                IF verdict[1]
                THEN [acc EXCEPT !.suppressed_count = @ + 1]
                ELSE [acc EXCEPT !.unsuppressed = <<issues[i]>> \o @],
                context, issues, i + 1)

RECURSIVE SuppressLoop(_, _, _, _)
SuppressLoop(acc, context, issues, i) ==
    IF i > Len(issues) THEN acc
    ELSE LET verdict == should_suppress(context, issues[i])
         IN SuppressLoop(
                IF verdict[1]
                THEN [acc EXCEPT !.suppressed_count = @ + 1]
                ELSE [acc EXCEPT !.unsuppressed = Append(@, issues[i])],
                context, issues, i + 1)

\* the locals of apply_suppressions when its loop ends
SuppressionRun(issues, context) ==
    SuppressLoop([unsuppressed |-> <<>>, suppressed_count |-> 0], context, issues, 1)

\* mutant: every pass also drops the first issue it would keep
apply_suppressions_DropsFirstKept(issues, context) ==
    LET kept == SuppressionRun(issues, context).unsuppressed
    IN IF kept = <<>> THEN kept ELSE Tail(kept)

apply_suppressions(issues, context) == SuppressionRun(issues, context).unsuppressed

(***************************************************************************)
(* The dicts the detectors build, by the function that builds them         *)
(***************************************************************************)

\* agents/security_scanner.py: regular expressions over the source text
SecretPattern(file, n, message) ==
    Finding("scan_hardcoded_secrets", file, Some(PyInt(n)), Some("security"), NoKey, message)
SqlPattern(file, message) ==
    Finding("scan_sql_injection", file, NoKey, Some("security"), NoKey, message)
JsPattern(file, n, message) ==
    Finding("scan_js_security", file, Some(PyInt(n)), Some("security"), NoKey, message)
\* agents/security_scanner.py: a line of bandit's report
BanditLine(file, message) ==
    Finding("bandit", file, NoKey, Some("security"), NoKey, message)
\* agents/static_analysis.py: a line of pylint's and of flake8's report
PylintLine(file, message) ==
    Finding("pylint", file, NoKey, Some("static_analysis"), Some("pylint"), message)
Flake8Line(file, line, message) ==
    Finding("flake8", file, Some(line), Some("static_analysis"), Some("flake8"), message)
\* agents/semantic_analysis.py
ClaudeLine(file, message) ==
    Finding("analyze_semantics", file, NoKey, Some("semantic"), NoKey, message)
ClaudeEnhanced(file, line, message) ==
    Finding("enhanced_semantic_analysis", file, Some(line), Some("semantic"),
            Some("claude_enhanced"), message)
\* agents/complexity_analysis.py
RadonLine(file, message) ==
    Finding("radon", file, NoKey, Some("complexity"), NoKey, message)
ComplexityPattern(file, message) ==
    Finding("analyze_general_complexity", file, NoKey, Some("complexity"), NoKey, message)
\* agents/additional_agents.py
BugPattern(file, n, message) ==
    Finding("detect_bug_patterns", file, Some(PyInt(n)), Some("bug_pattern"), NoKey, message)
PerformancePattern(file, n, message) ==
    Finding("analyze_performance", file, Some(PyInt(n)), Some("performance"), NoKey, message)
BestPractice(file, n, message) ==
    Finding("check_best_practices", file, Some(PyInt(n)), Some("best_practices"), NoKey, message)
\* core/production_pipeline.py: static_analysis_local_node
PylintLocal(file) ==
    Finding("pylint_local", file, NoKey, Some("static_analysis"), Some("pylint_local"),
            <<"S","t","a","t","i","c"," ","a","n","a","l","y","s","i","s"," ","i","s","s","u","e","s"," ","f","o","u","n","d">>)

\* the detectors that match regular expressions against the source text, and
\* the adapters that parse the report of an external tool
PatternDetectors ==
    {"scan_hardcoded_secrets", "scan_sql_injection", "scan_js_security",
     "analyze_general_complexity", "detect_bug_patterns", "analyze_performance",
     "check_best_practices"}
ToolAdapters == {"bandit", "pylint", "flake8", "radon", "pylint_local"}

\* analyze_context's result, as far as the scorer and the rules read it
Context(stage, perf, domain) ==
    [stage |-> stage, is_performance_critical |-> perf, has_domain_complexity |-> domain]

\* get_default_context()
DefaultContext == Context("Development", FALSE, FALSE)

(***************************************************************************)
(* core/deduplication.py: the noise filter and process_issues_pipeline     *)
(***************************************************************************)

NoisePatterns ==
    <<<<"l","i","n","e"," ","t","o","o"," ","l","o","n","g">>, <<"t","r","a","i","l","i","n","g"," ","w","h","i","t","e","s","p","a","c","e">>, <<"m","i","s","s","i","n","g"," ","f","i","n","a","l"," ","n","e","w","l","i","n","e">>,
      <<"w","r","o","n","g"," ","i","m","p","o","r","t"," ","o","r","d","e","r">>, <<"u","n","u","s","e","d"," ","i","m","p","o","r","t">>, <<"m","o","d","u","l","e"," ","l","e","v","e","l"," ","i","m","p","o","r","t">>,
      <<"l","o","w","e","r","c","a","s","e"," ","v","a","r","i","a","b","l","e">>, <<"i","n","v","a","l","i","d"," ","n","a","m","e"," ","\"","i","\"">>, <<"i","n","v","a","l","i","d"," ","n","a","m","e"," ","\"","x","\"">>,
      <<"i","n","v","a","l","i","d"," ","n","a","m","e"," ","\"","f","\"">>>>

\* (mutant) security findings are kept before the noise patterns are tried
should_keep_issue_SecurityFirst(issue) ==
    LET message == LowerMessage(issue)
    IN IF Get(issue.type, "") = "security" THEN TRUE
       ELSE IF ContainsAny(message, NoisePatterns) /\ ScoreKey(issue) < 300 THEN FALSE
       ELSE IF ScoreKey(issue) >= 400 THEN TRUE
       ELSE IF Get(issue.type, "") = "semantic" /\ Contains(message, KwCritical) THEN TRUE
       ELSE IF Get(issue.type, "") = "complexity" /\ ScoreKey(issue) < 400 THEN FALSE
       ELSE TRUE

\* risk_score is held in hundredths: 3 is 300, 4 is 400
should_keep_issue(issue) ==
    LET message == LowerMessage(issue)
    IN IF ContainsAny(message, NoisePatterns) /\ ScoreKey(issue) < 300 THEN FALSE
       ELSE IF ScoreKey(issue) >= 400 THEN TRUE
       ELSE IF Get(issue.type, "") = "security" THEN TRUE
       ELSE IF Get(issue.type, "") = "semantic" /\ Contains(message, KwCritical) THEN TRUE
       ELSE IF Get(issue.type, "") = "complexity" /\ ScoreKey(issue) < 400 THEN FALSE
       ELSE TRUE

smart_filter_noise(issues) == SelectSeq(issues, should_keep_issue)

process_issues_pipeline(issues) == smart_filter_noise(deduplicate_issues(issues))

(***************************************************************************)
(* core/code_rag.py: enhance_issues_with_rag.  The issues with level       *)
(* CRITICAL or HIGH, at most the first 10, are sent to the language model  *)
(* one by one; an issue whose call succeeds gets an analysis written into  *)
(* its dict, an issue whose call fails (or any issue when no API key is    *)
(* set) stays as it is.                                                    *)
(***************************************************************************)

RagLimit == 10

IsCritical(issue) == Get(issue.risk_level, "") \in {"CRITICAL", "HIGH"}

\* critical = [i for i in issues if ...][:10]
CriticalIssues(issues) == Prefix(SelectSeq(issues, IsCritical), RagLimit)

\* the positions of the issues for which "issue in critical" holds
RagPositions(issues) ==
    {i \in 1..Len(issues) : InList(issues[i], CriticalIssues(issues))}

\* the list after the calls at the positions in answered succeeded
enhance_issues_with_rag(issues, answered) ==
    [i \in 1..Len(issues) |->
        IF i \in answered
        THEN [issues[i] EXCEPT !.rag_analysis = Some("analysis")]
        ELSE issues[i]]

(***************************************************************************)
(* The two graphs: create_complete_pipeline and create_production_pipeline *)
(***************************************************************************)

END == "__end__"

\* the nodes in the order add_node declares them
NodesOf(p) ==
    IF p = "complete"
    THEN <<"context_analysis", "static_analysis", "security_scan",
           "complexity_analysis", "semantic_analysis", "bug_patterns",
           "performance", "best_practices", "risk_scoring", "suppression",
           "rag_enhancement", "test_generation">>
    ELSE <<"setup_workspace", "context_analysis", "static_analysis_local",
           "security_scan", "enhanced_semantic", "deduplication",
           "risk_scoring", "suppression", "rag_enhancement",
           "test_generation_local">>

NodeSet(p) == {NodesOf(p)[k] : k \in 1..Len(NodesOf(p))}

\* set_entry_point
EntryPoint(p) == IF p = "complete" THEN "context_analysis" ELSE "setup_workspace"

\* the detector nodes, which run side by side
DetectorsOf(p) ==
    IF p = "complete"
    THEN {"static_analysis", "security_scan", "complexity_analysis",
          "semantic_analysis", "bug_patterns", "performance", "best_practices"}
    ELSE {"static_analysis_local", "security_scan", "enhanced_semantic"}

\* the node all detectors lead to
JoinOf(p) == IF p = "complete" THEN "risk_scoring" ELSE "deduplication"

\* add_edge(from, to)
EdgesOf(p) ==
    IF p = "complete"
    THEN {<<"context_analysis", d>> : d \in DetectorsOf(p)}
         \cup {<<d, "risk_scoring">> : d \in DetectorsOf(p)}
         \cup {<<"risk_scoring", "suppression">>,
               <<"suppression", "rag_enhancement">>,
               <<"rag_enhancement", "test_generation">>,
               <<"test_generation", END>>}
    ELSE {<<"setup_workspace", "context_analysis">>}
         \cup {<<"context_analysis", d>> : d \in DetectorsOf(p)}
         \cup {<<d, "deduplication">> : d \in DetectorsOf(p)}
         \cup {<<"deduplication", "risk_scoring">>,
               <<"risk_scoring", "suppression">>,
               <<"suppression", "rag_enhancement">>,
               <<"rag_enhancement", "test_generation_local">>,
               <<"test_generation_local", END>>}

Predecessors(p, n) == {e[1] : e \in {x \in EdgesOf(p) : x[2] = n}}
Successors(p, n) == {e[2] : e \in {x \in EdgesOf(p) : x[1] = n}}

(***************************************************************************)
(* Inputs                                                                  *)
(***************************************************************************)

\* the longest list of findings handed to a function
MaxIssues == 3

\* the most calls in a row, each on the list the call before returned
MaxCalls == 2

\* the lists of at most n findings out of S
ListsUpTo(S, n) == UNION {[1..k -> S] : k \in 0..n}

FileA == <<"a",".","p","y">>
FileB == <<"b",".","p","y">>

MsgPassword == <<"H","a","r","d","c","o","d","e","d"," ","p","a","s","s","w","o","r","d"," ","d","e","t","e","c","t","e","d",":"," ","p","a","s","s","w","o","r","d"," ","="," ","\"","h","u","n","t","e","r","2","\"",".",".",".">>
MsgPasswordNumbered == <<"1","2",":"," ","H","a","r","d","c","o","d","e","d"," ","p","a","s","s","w","o","r","d"," ","d","e","t","e","c","t","e","d",":"," ","p","a","s","s","w","o","r","d"," ","="," ","\"","h","u","n","t","e","r","2","\"",".",".",".">>
MsgPasswordUpper == <<"H","A","R","D","C","O","D","E","D"," ","P","A","S","S","W","O","R","D"," ","D","E","T","E","C","T","E","D",":"," ","P","A","S","S","W","O","R","D"," ","="," ","\"","H","U","N","T","E","R","2","\"",".",".",".">>
MsgSql == <<"S","Q","L"," ","I","n","j","e","c","t","i","o","n",":"," ","f","-","s","t","r","i","n","g"," ","i","n"," ","S","Q","L"," ","q","u","e","r","y">>
MsgSqlNumbered == <<"7",":","S","Q","L"," ","I","n","j","e","c","t","i","o","n",":"," ","f","-","s","t","r","i","n","g"," ","i","n"," ","S","Q","L"," ","q","u","e","r","y">>
MsgBanditSql ==
    <<">",">"," ","I","s","s","u","e",":"," ","[","B","6","0","8",":","h","a","r","d","c","o","d","e","d","_","s","q","l","_","e","x","p","r","e","s","s","i","o","n","s","]"," ","P","o","s","s","i","b","l","e"," ","S","Q","L"," ","i","n","j","e","c","t","i","o","n"," ","v","e","c","t","o","r"," ","t","h","r","o","u","g","h"," ","s","t","r","i","n","g","-","b","a","s","e","d"," ","q","u","e","r","y"," ","c","o","n","s","t","r","u","c","t","i","o","n",".">>
MsgBanditSqlFormat ==
    <<">",">"," ","I","s","s","u","e",":"," ","[","B","6","0","8",":","s","q","l","]"," ","P","o","s","s","i","b","l","e"," ","S","Q","L"," ","i","n","j","e","c","t","i","o","n"," ","v","e","c","t","o","r"," ","t","h","r","o","u","g","h"," ","s","t","r",".","f","o","r","m","a","t">>

\* findings that meet on a few fingerprints, from detectors of both kinds
DedupCore ==
    {SecretPattern(FileA, 3, MsgPassword),
     Flake8Line(FileA, PyInt(3), MsgPasswordNumbered),
     ClaudeEnhanced(FileA, PyInt(3), MsgPassword),
     SqlPattern(FileA, MsgSql),
     PylintLine(FileA, MsgSqlNumbered)}

DedupFindings ==
    DedupCore \cup
    {SecretPattern(FileB, 3, MsgPassword),
     SecretPattern(FileA, 4, MsgPassword),
     Flake8Line(FileA, PyNone, MsgPassword),
     ClaudeEnhanced(FileA, PyNone, MsgPasswordNumbered),
     PylintLine(FileA, MsgPasswordUpper),
     BanditLine(FileA, MsgBanditSql),
     BanditLine(FileA, MsgBanditSqlFormat)}

DedupInputs == ListsUpTo(DedupFindings, 2) \cup ListsUpTo(DedupCore, MaxIssues)

\* a dict with just file, type and message, as a caller of score_issue or
\* of should_suppress may pass it
PlainIssue(file, type, message) ==
    Finding("caller", file, NoKey, Some(type), NoKey, message)

MsgEval == <<"e","v","a","l","(",")"," ","u","s","a","g","e"," ","-"," ","a","r","b","i","t","r","a","r","y"," ","c","o","d","e"," ","e","x","e","c","u","t","i","o","n">>
MsgJsEval == <<"C","r","i","t","i","c","a","l",":"," ","e","v","a","l","(",")"," ","u","s","a","g","e"," ","-"," ","a","r","b","i","t","r","a","r","y"," ","c","o","d","e"," ","e","x","e","c","u","t","i","o","n">>
MsgJsXss == <<"P","o","t","e","n","t","i","a","l"," ","X","S","S",":"," ","U","s","i","n","g"," ","i","n","n","e","r","H","T","M","L"," ","w","i","t","h","o","u","t"," ","s","a","n","i","t","i","z","a","t","i","o","n">>
MsgJsHttp == <<"I","n","s","e","c","u","r","e"," ","H","T","T","P"," ","c","o","n","n","e","c","t","i","o","n"," ","(","s","h","o","u","l","d"," ","u","s","e"," ","H","T","T","P","S",")">>
MsgAwsSecret == <<"A","W","S"," ","s","e","c","r","e","t"," ","k","e","y"," ","d","e","t","e","c","t","e","d",":"," ","a","w","s","_","s","e","c","r","e","t",".",".",".">>
MsgClaudeCrash == <<"P","o","s","s","i","b","l","e"," ","c","r","a","s","h",":"," ","d","i","v","i","s","i","o","n"," ","b","y"," ","z","e","r","o"," ","w","h","e","n"," ","t","h","e"," ","l","i","s","t"," ","i","s"," ","e","m","p","t","y">>
MsgClaudeError == <<"U","n","h","a","n","d","l","e","d"," ","e","r","r","o","r"," ","p","a","t","h"," ","i","n"," ","t","h","e"," ","r","e","t","r","y"," ","l","o","o","p">>
MsgClaudeRefactor == <<"C","o","n","s","i","d","e","r"," ","a"," ","r","e","f","a","c","t","o","r"," ","o","f"," ","t","h","i","s"," ","l","o","n","g"," ","f","u","n","c","t","i","o","n">>
MsgClaudePlain == <<"L","o","o","p"," ","v","a","r","i","a","b","l","e"," ","s","h","a","d","o","w","s"," ","t","h","e"," ","a","r","g","u","m","e","n","t">>
MsgRadonCC == <<"H","i","g","h"," ","c","y","c","l","o","m","a","t","i","c"," ","c","o","m","p","l","e","x","i","t","y",":"," ","F"," ","1",":","0"," ","p","a","r","s","e","_","c","o","m","m","e","n","t"," ","-"," ","C"," ","(","1","2",")">>
MsgLongFunction == <<"L","o","n","g"," ","f","u","n","c","t","i","o","n"," ","d","e","t","e","c","t","e","d",":"," ","~","8","0"," ","l","i","n","e","s"," ","(","r","e","c","o","m","m","e","n","d","e","d",":"," ","<","5","0",")">>
MsgDeepNesting == <<"D","e","e","p"," ","n","e","s","t","i","n","g",":"," ","6"," ","l","e","v","e","l","s"," ","(","r","e","c","o","m","m","e","n","d","e","d",":"," ","<","=","5",")">>
MsgPylintDocstring == <<"C","0","1","1","6",":"," ","M","i","s","s","i","n","g"," ","f","u","n","c","t","i","o","n"," ","o","r"," ","m","e","t","h","o","d"," ","d","o","c","s","t","r","i","n","g"," ","(","m","i","s","s","i","n","g","-","f","u","n","c","t","i","o","n","-","d","o","c","s","t","r","i","n","g",")">>
MsgPylintNaming == <<"C","0","1","0","3",":"," ","V","a","r","i","a","b","l","e"," ","n","a","m","e"," ","\"","X","\""," ","d","o","e","s","n","'","t"," ","c","o","n","f","o","r","m"," ","t","o"," ","s","n","a","k","e","_","c","a","s","e"," ","n","a","m","i","n","g"," ","s","t","y","l","e"," ","(","i","n","v","a","l","i","d","-","n","a","m","e",")">>
MsgFlake8Long == <<"E","5","0","1"," ","l","i","n","e"," ","t","o","o"," ","l","o","n","g"," ","(","9","1"," ",">"," ","7","9"," ","c","h","a","r","a","c","t","e","r","s",")">>
MsgBareExcept == <<"B","a","r","e"," ","e","x","c","e","p","t"," ","c","l","a","u","s","e"," ","c","a","t","c","h","e","s"," ","a","l","l"," ","e","x","c","e","p","t","i","o","n","s">>
MsgUseLogging == <<"U","s","e"," ","l","o","g","g","i","n","g"," ","i","n","s","t","e","a","d"," ","o","f"," ","p","r","i","n","t">>
MsgGlobal == <<"P","e","r","f","o","r","m","a","n","c","e",":"," ","G","l","o","b","a","l"," ","v","a","r","i","a","b","l","e"," ","(","i","m","p","a","c","t","s"," ","p","e","r","f","o","r","m","a","n","c","e",")">>

\* findings of every type, with messages that reach every row of the four
\* rule tables
\* two findings whose weighted sum is the double just below 6
MsgPylintSecretName == <<"C","0","1","0","3",":"," ","F","u","n","c","t","i","o","n"," ","n","a","m","e"," ","\"","g","e","t","S","e","c","r","e","t","\""," ","d","o","e","s","n","'","t"," ","c","o","n","f","o","r","m"," ","t","o"," ","s","n","a","k","e","_","c","a","s","e"," ","n","a","m","i","n","g"," ","s","t","y","l","e"," ","(","i","n","v","a","l","i","d","-","n","a","m","e",")">>
MsgClaudeXss == <<"L","I","N","E"," ","1","4",":"," ","[","H","I","G","H","]"," ","X","S","S"," ","e","r","r","o","r"," ","i","n"," ","f","u","n","c","t","i","o","n"," ","r","e","n","d","e","r"," ","(","n","a","m","i","n","g"," ","c","l","a","s","h",")">>

\* a line of bandit's report that names an injection other than SQL
MsgBanditShell == <<">",">"," ","I","s","s","u","e",":"," ","[","B","6","0","5",":","s","t","a","r","t","_","p","r","o","c","e","s","s","_","w","i","t","h","_","a","_","s","h","e","l","l","]"," ","S","t","a","r","t","i","n","g"," ","a"," ","p","r","o","c","e","s","s"," ","w","i","t","h"," ","a"," ","s","h","e","l","l",","," ","p","o","s","s","i","b","l","e"," ","i","n","j","e","c","t","i","o","n"," ","d","e","t","e","c","t","e","d",","," ","s","e","c","u","r","i","t","y"," ","i","s","s","u","e",".">>

\* lines of bandit's and radon's reports with keywords of several rows
MsgBanditEval == <<">",">"," ","I","s","s","u","e",":"," ","[","B","3","0","7",":","b","l","a","c","k","l","i","s","t","]"," ","U","s","e"," ","o","f"," ","p","o","s","s","i","b","l","y"," ","i","n","s","e","c","u","r","e"," ","f","u","n","c","t","i","o","n"," ","-"," ","c","o","n","s","i","d","e","r"," ","u","s","i","n","g"," ","s","a","f","e","r"," ","a","s","t",".","l","i","t","e","r","a","l","_","e","v","a","l",".">>
MsgRadonRefactor == <<"H","i","g","h"," ","c","y","c","l","o","m","a","t","i","c"," ","c","o","m","p","l","e","x","i","t","y",":"," ","F"," ","1",":","0"," ","r","e","f","a","c","t","o","r","_","d","o","c","s","t","r","i","n","g"," ","-"," ","C"," ","(","1","2",")">>
MsgRadonDocstring == <<"H","i","g","h"," ","c","y","c","l","o","m","a","t","i","c"," ","c","o","m","p","l","e","x","i","t","y",":"," ","M"," ","4",":","4"," ","P","a","r","s","e","r",".","d","o","c","s","t","r","i","n","g","_","n","a","m","i","n","g"," ","-"," ","C"," ","(","1","1",")">>

ScoreFindings ==
    {BanditLine(FileA, MsgBanditEval),
     RadonLine(FileA, MsgRadonRefactor),
     RadonLine(FileA, MsgRadonDocstring),
     BanditLine(FileA, MsgBanditShell),
     PylintLine(FileA, MsgPylintSecretName),
     ClaudeLine(FileA, MsgClaudeXss),
     PlainIssue(FileA, "security", MsgEval),
     JsPattern(FileA, 3, MsgJsEval),
     JsPattern(FileA, 4, MsgJsXss),
     JsPattern(FileA, 5, MsgJsHttp),
     SqlPattern(FileA, MsgSql),
     SecretPattern(FileA, 3, MsgPassword),
     SecretPattern(FileA, 6, MsgAwsSecret),
     BanditLine(FileA, MsgBanditSql),
     ClaudeLine(FileA, MsgClaudeCrash),
     ClaudeLine(FileA, MsgClaudeError),
     ClaudeLine(FileA, MsgClaudeRefactor),
     ClaudeEnhanced(FileA, PyNone, MsgClaudePlain),
     RadonLine(FileA, MsgRadonCC),
     ComplexityPattern(FileA, MsgLongFunction),
     ComplexityPattern(FileA, MsgDeepNesting),
     PylintLine(FileA, MsgPylintDocstring),
     PylintLine(FileA, MsgPylintNaming),
     Flake8Line(FileA, PyInt(9), MsgFlake8Long),
     PylintLocal(FileA),
     BugPattern(FileA, 7, MsgBareExcept),
     BestPractice(FileA, 5, MsgUseLogging),
     PerformancePattern(FileA, 8, MsgGlobal)}

\* messages whose keywords take the lowest and the highest rows of the
\* rule tables at once
MsgLowRows == <<"R","e","f","a","c","t","o","r",":"," ","f","u","n","c","t","i","o","n"," ","l","a","c","k","s"," ","a"," ","d","o","c","s","t","r","i","n","g">>
MsgHighRows == <<"H","a","r","d","c","o","d","e","d"," ","S","Q","L"," ","i","n","j","e","c","t","i","o","n"," ","i","n"," ","d","o","c","s","t","r","i","n","g">>

\* findings of every type, and one without a type, with these messages
ExtremeFindings ==
    {PlainIssue(FileA, type, message) :
        type \in {"security", "semantic", "complexity", "static_analysis"},
        message \in {MsgLowRows, MsgHighRows}}
    \cup {Finding("caller", FileA, NoKey, NoKey, NoKey, message) :
            message \in {MsgLowRows, MsgHighRows}}

\* two pairs of findings with equal scores, and one whose score depends on
\* the stage
ScoreCore ==
    {PlainIssue(FileB, "security", MsgEval),
     JsPattern(FileA, 3, MsgJsEval),
     BugPattern(FileA, 7, MsgBareExcept),
     BestPractice(FileA, 5, MsgUseLogging)}

Stages == {"Development", "Production", "Prototype"}
Contexts == {Context(stage, perf, domain) :
                stage \in Stages, perf \in BOOLEAN, domain \in BOOLEAN}

FileParser == <<"p","a","r","s","e","r",".","p","y">>
FileVendor == <<"v","e","n","d","o","r","/","l","i","b",".","p","y">>
FileTest == <<"t","e","s","t","_","a","p","p",".","p","y">>
FileVendorTestParser == <<"V","e","n","d","o","r","/","T","e","s","t","_","P","a","r","s","e","r",".","p","y">>

SuppressFiles == {FileA, FileParser, FileVendor, FileTest, FileVendorTestParser}

\* a line of the language model's answer that speaks of complexity
MsgClaudeComplexity == <<"Q","u","a","d","r","a","t","i","c"," ","t","i","m","e"," ","c","o","m","p","l","e","x","i","t","y"," ","i","n"," ","t","h","e"," ","n","e","s","t","e","d"," ","t","o","k","e","n"," ","l","o","o","p">>

\* on every file: two complexity findings, a style finding, a security
\* finding and a semantic finding whose message mentions complexity
SuppressFindings ==
    UNION {{RadonLine(file, MsgRadonCC),
            ComplexityPattern(file, MsgDeepNesting),
            PylintLine(file, MsgPylintDocstring),
            SecretPattern(file, 3, MsgPassword),
            ClaudeLine(file, MsgClaudeComplexity)} : file \in SuppressFiles}

SuppressCore ==
    {RadonLine(FileParser, MsgRadonCC),
     ComplexityPattern(FileA, MsgDeepNesting),
     PylintLine(FileTest, MsgPylintDocstring),
     SecretPattern(FileA, 3, MsgPassword)}

(***************************************************************************)
(* ReviewState and the node functions of the two pipelines.  The channels  *)
(* generated_tests, test_coverage, total_cost and total_tokens are left    *)
(* out: no node reads them to decide what it does to the issues.           *)
(* What a node returns is the function from the keys of the dict it        *)
(* returns to their values; a node that returns its argument returns every *)
(* key.                                                                    *)
(***************************************************************************)

\* context={}: every get on it gives None
EmptyContext == Context("", FALSE, FALSE)

\* the initial_state of run_complete_pipeline and of run_production_pipeline
\* (code_files holds the names of the files given)
InitialState(p, code_files) ==
    IF p = "complete"
    THEN [code_files |-> code_files,
          context |-> EmptyContext, raw_issues |-> <<>>, scored_issues |-> <<>>,
          filtered_issues |-> <<>>, enhanced_issues |-> <<>>, status |-> "running"]
    ELSE [code_files |-> code_files,
          workspace_dir |-> "", context |-> EmptyContext, raw_issues |-> <<>>,
          deduplicated_issues |-> <<>>, scored_issues |-> <<>>,
          filtered_issues |-> <<>>, enhanced_issues |-> <<>>, status |-> "running"]

\* Annotated[List[Dict], operator.add], mutant: the channel keeps the last write
ReduceRawIssues_LastValue(current, update) == update

\* Annotated[List[Dict], operator.add]
ReduceRawIssues(current, update) == current \o update

\* the positions of the scored list that apply_suppressions keeps, in order:
\* filtered_issues[k] is the dict scored_issues[KeptIndexes[k]]
KeptIndexes(context, scored) ==
    SelectSeq([i \in 1..Len(scored) |-> i],
              LAMBDA i : ~should_suppress(context, scored[i])[1])

\* the channels after rag_enhancement wrote the analyses into the dicts of
\* filtered_issues, which are dicts of scored_issues too
RagWrittenInPlace(state, answered) ==
    LET kept == KeptIndexes(state.context, state.scored_issues)
    IN [state EXCEPT
          !.filtered_issues = enhance_issues_with_rag(@, answered),
          !.scored_issues = enhance_issues_with_rag(@, {kept[k] : k \in answered})]

\* what the node n of the complete pipeline returns; choice holds what the
\* node gets from outside the state (the context the analyzer found, the
\* issues the detector found, the issues the language model answered for)
CompleteNodeReturn(n, state, choice) ==
    CASE n = "context_analysis" -> [state EXCEPT !.context = choice.context]
      [] n \in DetectorsOf("complete") -> [raw_issues |-> choice.issues]
      [] n = "risk_scoring" ->
            [state EXCEPT !.scored_issues =
                score_all_issues(state.raw_issues, state.context)]
      [] n = "suppression" ->
            [state EXCEPT !.filtered_issues =
                apply_suppressions(state.scored_issues, state.context)]
      [] n = "rag_enhancement" ->
            [RagWrittenInPlace(state, choice.answered) EXCEPT !.enhanced_issues =
                enhance_issues_with_rag(state.filtered_issues, choice.answered)]
      [] n = "test_generation" -> [state EXCEPT !.status = "complete"]

\* what the node n of the production pipeline returns
ProductionNodeReturn(n, state, choice) ==
    CASE n = "setup_workspace" -> [workspace_dir |-> "codeguardian_workspace_"]
      [] n = "context_analysis" -> [context |-> choice.context]
      [] n \in DetectorsOf("production") -> [raw_issues |-> choice.issues]
      [] n = "deduplication" ->
            [deduplicated_issues |-> process_issues_pipeline(state.raw_issues)]
      [] n = "risk_scoring" ->
            [scored_issues |->
                score_all_issues(state.deduplicated_issues, state.context)]
      [] n = "suppression" ->
            [filtered_issues |->
                apply_suppressions(state.scored_issues, state.context)]
      [] n = "rag_enhancement" ->
            [enhanced_issues |->
                enhance_issues_with_rag(state.filtered_issues, choice.answered)]
      [] n = "test_generation_local" -> [status |-> "complete"]

\* mutant: the suppression node hands back an empty context as well
NodeReturn_SuppressionClearsContext(p, n, state, choice) ==
    LET r == IF p = "complete" THEN CompleteNodeReturn(n, state, choice)
             ELSE ProductionNodeReturn(n, state, choice)
    IN IF n = "suppression" THEN ("context" :> EmptyContext) @@ r ELSE r

NodeReturn(p, n, state, choice) ==
    IF p = "complete" THEN CompleteNodeReturn(n, state, choice)
    ELSE ProductionNodeReturn(n, state, choice)

\* the channels when node n returns: the lists and dicts a node is given
\* are the ones the channels hold, so what a node writes into them is
\* written into the channels
ChannelsAfterNode(p, n, state, choice) ==
    IF n = "rag_enhancement" THEN RagWrittenInPlace(state, choice.answered)
    ELSE IF p = "production" /\ n = "deduplication"
    THEN [state EXCEPT !.raw_issues = IssuesAfterDedup(@)]
    ELSE state

\* mutant: the writes are applied in the reverse of the fixed order
WritersOf_Reversed(returns, order, key) ==
    LET fwd == SelectSeq(order, LAMBDA n : n \in DOMAIN returns /\ key \in DOMAIN returns[n])
    IN [i \in 1..Len(fwd) |-> fwd[Len(fwd) + 1 - i]]

\* the nodes of order that returned a value for the channel key
WritersOf(returns, order, key) ==
    SelectSeq(order, LAMBDA n : n \in DOMAIN returns /\ key \in DOMAIN returns[n])

RECURSIVE ReduceAll(_, _, _, _)
ReduceAll(value, returns, writers, i) ==
    IF i > Len(writers) THEN value
    ELSE ReduceAll(ReduceRawIssues(value, returns[writers[i]].raw_issues),
                   returns, writers, i + 1)

\* the channels after the values the nodes of a step returned were applied:
\* raw_issues through its reducer, every other channel takes the value
\* written to it
ApplyWrites(state, returns, order) ==
    [key \in DOMAIN state |->
        LET writers == WritersOf(returns, order, key)
        IN IF key = "raw_issues" THEN ReduceAll(state[key], returns, writers, 1)
           ELSE IF writers = <<>> THEN state[key]
           ELSE returns[writers[Len(writers)]][key]]

(***************************************************************************)
(* What the nodes get from outside the state                               *)
(***************************************************************************)

MsgSqlConcat == <<"S","Q","L"," ","I","n","j","e","c","t","i","o","n",":"," ","S","t","r","i","n","g"," ","c","o","n","c","a","t","e","n","a","t","i","o","n"," ","i","n"," ","q","u","e","r","y">>

\* the lists a detector node may find, one for a corpus it finds nothing in
\* and one for a corpus it finds something in.  analyze_security appends
\* the SQL findings before the secrets; two of its SQL patterns carry the
\* same message, so a line both match gives two equal dicts.
DetectorOutputs(n) ==
    {<<>>} \cup
    CASE n = "static_analysis" ->
            {<<PylintLine(FileA, MsgPylintDocstring),
               Flake8Line(FileA, PyInt(9), MsgFlake8Long)>>}
      [] n = "static_analysis_local" -> {<<PylintLocal(FileA)>>}
      [] n = "security_scan" ->
            {<<SqlPattern(FileA, MsgSqlConcat), SqlPattern(FileA, MsgSqlConcat),
               SecretPattern(FileA, 3, MsgPassword)>>}
      [] n = "complexity_analysis" -> {<<RadonLine(FileA, MsgRadonCC)>>}
      [] n = "semantic_analysis" -> {<<ClaudeLine(FileA, MsgClaudeCrash)>>}
      [] n = "enhanced_semantic" -> {<<ClaudeEnhanced(FileA, PyInt(3), MsgPassword)>>}
      [] n = "bug_patterns" -> {<<BugPattern(FileA, 7, MsgBareExcept)>>}
      [] n = "performance" -> {<<PerformancePattern(FileA, 8, MsgGlobal)>>}
      [] n = "best_practices" -> {<<BestPractice(FileA, 5, MsgUseLogging)>>}

\* the corpora a run is given: no file, or the file the detectors' findings
\* are on
Corpora == {{}, {FileA}}

\* the contexts analyze_context may come back with
PipelineContexts ==
    {DefaultContext, Context("Production", TRUE, FALSE), Context("Prototype", FALSE, TRUE)}

NoChoice == [context |-> EmptyContext, issues |-> <<>>, answered |-> {}]

\* mutant: a detector reports findings whatever files it was given
ChoicesOf_IgnoresCorpus(p, n, channels) ==
    IF n = "context_analysis"
    THEN {[NoChoice EXCEPT !.context = c] : c \in PipelineContexts}
    ELSE IF n \in DetectorsOf(p)
    THEN {[NoChoice EXCEPT !.issues = out] : out \in DetectorOutputs(n)}
    ELSE IF n = "rag_enhancement"
    THEN {[NoChoice EXCEPT !.answered = a] :
             a \in SUBSET RagPositions(channels.filtered_issues)}
    ELSE {NoChoice}

\* what a node may get from outside the state: a detector given no file
\* finds nothing
ChoicesOf(p, n, channels) ==
    IF n = "context_analysis"
    THEN {[NoChoice EXCEPT !.context = c] : c \in PipelineContexts}
    ELSE IF n \in DetectorsOf(p)
    THEN {[NoChoice EXCEPT !.issues = out] :
             out \in IF channels.code_files = {} THEN {<<>>} ELSE DetectorOutputs(n)}
    ELSE IF n = "rag_enhancement"
    THEN {[NoChoice EXCEPT !.answered = a] :
             a \in SUBSET RagPositions(channels.filtered_issues)}
    ELSE {NoChoice}

\* the nodes sorted by name
NodesByName(p) ==
    IF p = "complete"
    THEN <<"best_practices", "bug_patterns", "complexity_analysis",
           "context_analysis", "performance", "rag_enhancement", "risk_scoring",
           "security_scan", "semantic_analysis", "static_analysis",
           "suppression", "test_generation">>
    ELSE <<"context_analysis", "deduplication", "enhanced_semantic",
           "rag_enhancement", "risk_scoring", "security_scan",
           "setup_workspace", "static_analysis_local", "suppression",
           "test_generation_local">>

\* the writes of a step are applied in a fixed order of the nodes, whatever
\* order they returned in: the order of declaration or the order of names
MergeOrders(p) == {NodesOf(p), NodesByName(p)}

(***************************************************************************)
(* agents/context_analyzer.py.  The dict is a function from its keys; the  *)
(* analysis is held as the lines analysis.split('\n') gives.               *)
(***************************************************************************)

\* get_default_context()
get_default_context ==
    [purpose |-> <<"C","o","d","e"," ","r","e","v","i","e","w">>,
     project_type |-> <<"A","p","p","l","i","c","a","t","i","o","n">>,
     stage |-> <<"D","e","v","e","l","o","p","m","e","n","t">>,
     is_performance_critical |-> FALSE,
     has_domain_complexity |-> FALSE,
     risk_tolerance |-> <<"m","e","d","i","u","m">>,
     maintainers |-> <<"T","e","a","m">>]

\* the first position at or after i where sep starts in s (0: nowhere)
IndexOf(s, sep, i) ==
    LET at == {j \in i..Len(s) : LiteralAt(s, j, sep)}
    IN IF at = {} THEN 0 ELSE Least(at)

\* line.split(sep)[1], for a line that holds sep
SplitSecond(line, sep) ==
    LET a == IndexOf(line, sep, 1) + Len(sep)
        b == IndexOf(line, sep, a)
    IN IF b = 0 THEN SubSeq(line, a, Len(line)) ELSE SubSeq(line, a, b - 1)

KwPurpose == <<"P","u","r","p","o","s","e",":">>
KwType == <<"T","y","p","e",":">>
KwStage == <<"S","t","a","g","e",":">>
KwPerformanceCritical == <<"P","e","r","f","o","r","m","a","n","c","e"," ","C","r","i","t","i","c","a","l",":">>
KwDomainComplexity == <<"D","o","m","a","i","n"," ","C","o","m","p","l","e","x","i","t","y",":">>
KwRiskTolerance == <<"R","i","s","k"," ","T","o","l","e","r","a","n","c","e",":">>
KwYes == <<"y","e","s">>
RiskTolerances == {<<"l","o","w">>, <<"m","e","d","i","u","m">>, <<"h","i","g","h">>}

\* one turn of the loop of parse_context_analysis
ParseLine(context, raw) ==
    LET line == Strip(raw)
    IN IF Contains(line, KwPurpose)
       THEN ("purpose" :> Strip(SplitSecond(line, KwPurpose))) @@ context
       ELSE IF Contains(line, KwType)
       THEN ("project_type" :> Strip(SplitSecond(line, KwType))) @@ context
       ELSE IF Contains(line, KwStage)
       THEN ("stage" :> Strip(SplitSecond(line, KwStage))) @@ context
       ELSE IF Contains(line, KwPerformanceCritical)
       THEN ("is_performance_critical" :> Contains(StrLower(line), KwYes)) @@ context
       ELSE IF Contains(line, KwDomainComplexity)
       THEN ("has_domain_complexity" :> Contains(StrLower(line), KwYes)) @@ context
       ELSE IF Contains(line, KwRiskTolerance)
       THEN LET tol == StrLower(Strip(SplitSecond(line, KwRiskTolerance)))
            IN ("risk_tolerance" :> IF tol \in RiskTolerances THEN tol ELSE <<"m","e","d","i","u","m">>)
                   @@ context
       ELSE context

RECURSIVE ParseLines(_, _, _)
ParseLines(context, analysis, i) ==
    IF i > Len(analysis) THEN context
    ELSE ParseLines(ParseLine(context, analysis[i]), analysis, i + 1)

\* mutant: the parsed context starts from an empty dict
parse_context_analysis_FromEmpty(analysis) == ParseLines(<<>>, analysis, 1)

\* parse_context_analysis(analysis)
parse_context_analysis(analysis) == ParseLines(get_default_context, analysis, 1)

\* analyze_context(code_files); outside holds what the function meets
\* outside its arguments: whether an API key is configured, whether the
\* request (or reading its response) raises, and the analysis that came back
analyze_context(outside) ==
    IF ~outside.api_key THEN get_default_context
    ELSE IF outside.raises THEN get_default_context
    ELSE parse_context_analysis(outside.analysis)

MaxLines == 2

\* lines a language model may answer with
ContextLines ==
    {<<"P","u","r","p","o","s","e",":"," ","B","i","l","l","i","n","g">>,
     <<"T","y","p","e",":"," ","S","e","r","v","i","c","e">>,
     <<"S","t","a","g","e",":"," ","P","r","o","d","u","c","t","i","o","n">>,
     <<" "," ","s","t","a","g","e",":"," ","b","e","t","a",","," ","S","t","a","g","e",":"," ","P","r","o","t","o","t","y","p","e">>,
     <<"P","e","r","f","o","r","m","a","n","c","e"," ","C","r","i","t","i","c","a","l",":"," ","Y","e","s">>,
     <<"D","o","m","a","i","n"," ","C","o","m","p","l","e","x","i","t","y",":"," ","N","o">>,
     <<"R","i","s","k"," ","T","o","l","e","r","a","n","c","e",":"," ","H","i","g","h">>,
     <<"R","i","s","k"," ","T","o","l","e","r","a","n","c","e",":"," ","n","o","n","e">>,
     <<"I","t"," ","i","s"," ","a"," ","C","L","I",".">>}

\* what analyze_context may meet outside its arguments
ContextInputs ==
    {[api_key |-> k, raises |-> r, analysis |-> a] :
        k \in BOOLEAN, r \in BOOLEAN, a \in ListsUpTo(ContextLines, MaxLines)}

(***************************************************************************)
(* The toolkit's workspace directory.  get_toolkit makes the one toolkit   *)
(* of the process on its first call, and the toolkit makes its directory   *)
(* when it is constructed.                                                 *)
(***************************************************************************)

\* BashToolkit.__init__: mkdtemp and makedirs
MakeWorkspace(dir) == "created"

\* BashToolkit.cleanup: rmtree, errors ignored
cleanup(dir) == IF dir = "created" THEN "removed" ELSE dir

\* get_toolkit: the toolkit is made on the first call only
get_toolkit(dir) == IF dir = "none" THEN MakeWorkspace(dir) ELSE dir

\* the directory when node n returns: setup_workspace_node gets the toolkit
WorkspaceAfterNode(p, n, dir) ==
    IF p = "production" /\ n = "setup_workspace" THEN get_toolkit(dir) ELSE dir

\* the directory when invoke has returned the final state:
\* run_production_pipeline cleans up before it returns
WorkspaceAfterInvoke(p, dir) ==
    IF p = "production" THEN cleanup(get_toolkit(dir)) ELSE dir

(***************************************************************************)
(* State.  A driver holds a list of findings (work) and a context, calls   *)
(* one of the functions on it and goes on with the list returned.          *)
(***************************************************************************)

VARIABLES
    work,             \* the list the driver passes to its next call
    context,          \* the context it passes
    last_call,        \* the function called last ("" before the first call)
    calls,            \* how many calls were made
    issues,           \* the argument of the last call, as passed
    issues_after,     \* the same list when the call returned
    returned,         \* the list the last call returned
    suppressed_count, \* the count apply_suppressions reported last
    verdicts          \* what should_suppress returned for each finding of
                      \* the last apply_suppressions call

\* a run of one of the two LangGraph pipelines
VARIABLES
    pipeline,         \* "complete" or "production" ("none": no run)
    merge_order,      \* the order the writes of one step are applied in
    state,            \* the channels of ReviewState
    active,           \* the nodes of the current step
    writes,           \* what the nodes that returned in this step returned
    started,          \* how often each node was started
    completed,        \* how often each node returned
    returned_by,      \* the findings each detector node returned
    join_input,       \* state['raw_issues'] as the join node was given it
    raised,           \* the node whose exception ended invoke ("": none)
    workspace         \* the toolkit's workspace directory: "none" before
                      \* it is made, then "created", then "removed"

driver_vars == <<work, context, last_call, calls, issues, issues_after, returned,
                 suppressed_count, verdicts>>
pipeline_vars == <<pipeline, merge_order, state, active, writes, started,
                   completed, returned_by, join_input, raised, workspace>>
vars == <<driver_vars, pipeline_vars>>

\* no pipeline runs
NoPipeline ==
    /\ pipeline = "none"
    /\ merge_order = <<>>
    /\ state = <<>>
    /\ active = {}
    /\ writes = <<>>
    /\ started = <<>>
    /\ completed = <<>>
    /\ returned_by = <<>>
    /\ join_input = <<>>
    /\ raised = ""
    /\ workspace = "none"

InitDriver(inputs, contexts) ==
    /\ work \in inputs
    /\ context \in contexts
    /\ last_call = ""
    /\ calls = 0
    /\ issues = <<>>
    /\ issues_after = <<>>
    /\ returned = <<>>
    /\ suppressed_count = 0
    /\ verdicts = <<>>
    /\ NoPipeline

\* deduplicate_issues(work)
Deduplicate ==
    /\ calls < MaxCalls
    /\ last_call' = "deduplicate_issues"
    /\ calls' = calls + 1
    /\ issues' = work
    /\ issues_after' = IssuesAfterDedup(work)
    /\ returned' = deduplicate_issues(work)
    /\ work' = returned'
    /\ UNCHANGED <<context, suppressed_count, verdicts>>
    /\ UNCHANGED pipeline_vars

InitDedup == InitDriver(DedupInputs, {DefaultContext})
NextDedup == Deduplicate
SpecDedup == InitDedup /\ [][NextDedup]_vars

(***************************************************************************)
(* Claims about deduplicate_issues                                         *)
(***************************************************************************)

\* the line as the fingerprint reads it: issue.get('line', 0)
LineKey(issue) == Get(issue.line, PyInt(0))

\* same file, same line, same normalized 50-character message prefix
SameFinding(f, g) ==
    /\ f.file = g.file
    /\ LineKey(f) = LineKey(g)
    /\ Prefix(NormalizedMessage(f), PrefixLen) = Prefix(NormalizedMessage(g), PrefixLen)

\* the positions of the returned list whose record stands for finding f
RecordsOf(f) == {k \in 1..Len(returned) : SameFinding(returned[k], f)}

\* detected_by of a record, [] when the key is missing
DetectedBy(record) == Get(record.detected_by, <<>>)

\* C1: when the list passed to deduplicate_issues holds two findings with the
\* same file, line and normalized message prefix, the list returned holds
\* exactly one record for them, and its detected_by names the detector of
\* each of the two (the finding's tool, or its type when it has no tool).
C1_DedupCollapse ==
    last_call = "deduplicate_issues" =>
        \A i, j \in 1..Len(issues) :
            (i < j /\ SameFinding(issues[i], issues[j])) =>
                /\ Cardinality(RecordsOf(issues[i])) = 1
                /\ \A k \in RecordsOf(issues[i]) :
                      /\ InList(ToolOf(issues[i]), DetectedBy(returned[k]))
                      /\ InList(ToolOf(issues[j]), DetectedBy(returned[k]))

\* C1 witness: two findings of different detectors were collapsed
C1_Witness ==
    /\ last_call = "deduplicate_issues"
    /\ \E i, j \in 1..Len(issues) :
          /\ i < j
          /\ SameFinding(issues[i], issues[j])
          /\ ToolOf(issues[i]) # ToolOf(issues[j])
          /\ \E k \in 1..Len(returned) :
                DetectedBy(returned[k]) = <<ToolOf(issues[i]), ToolOf(issues[j])>>

\* p is digits, a colon and then blanks
IsNumericPrefix(p) ==
    /\ Len(p) >= 2
    /\ IsDigit(p[1])
    /\ \E c \in 2..Len(p) :
          /\ p[c] = ":"
          /\ \A d \in 1..(c - 1) : IsDigit(p[d])
          /\ \A b \in (c + 1)..Len(p) : p[b] = " "

\* long is short behind a numeric prefix
NumericPrefixed(short, long) ==
    \E k \in 2..(Len(long) - 1) :
        /\ IsNumericPrefix(SubSeq(long, 1, k))
        /\ SubSeq(long, k + 1, Len(long)) = short

\* one finding of a pattern detector and one of a tool adapter, on the same
\* file and line, their messages differing only by a numeric prefix
PatternAndToolPair(f, g) ==
    /\ f.origin \in PatternDetectors
    /\ g.origin \in ToolAdapters
    /\ f.file = g.file
    /\ LineKey(f) = LineKey(g)
    /\ NumericPrefixed(f.message, g.message) \/ NumericPrefixed(g.message, f.message)

\* C2: a pattern detector's finding and a tool adapter's finding on the same
\* file and line whose messages differ only by a numeric prefix ("12: ...")
\* have the same fingerprint; deduplicate_issues merges them into one record,
\* and when no third finding shares the fingerprint its detected_by has
\* exactly 2 entries.
C2_NumericPrefixMerge ==
    last_call = "deduplicate_issues" =>
        \A i, j \in 1..Len(issues) :
            (PatternAndToolPair(issues[i], issues[j])) =>
                /\ create_fingerprint(issues[i]) = create_fingerprint(issues[j])
                /\ Cardinality(RecordsOf(issues[i])) = 1
                /\ (\A h \in 1..Len(issues) :
                        SameFinding(issues[h], issues[i]) => h \in {i, j})
                   => \A k \in RecordsOf(issues[i]) :
                         /\ Len(DetectedBy(returned[k])) = 2
                         /\ returned[k].confidence = Some(2)

\* C2 witness: such a pair was merged into a record found by 2 detectors
C2_Witness ==
    /\ last_call = "deduplicate_issues"
    /\ Len(issues) = 2
    /\ PatternAndToolPair(issues[1], issues[2])
    /\ Len(returned) = 1
    /\ Len(DetectedBy(returned[1])) = 2

(***************************************************************************)
(* score_all_issues under the driver                                       *)
(***************************************************************************)

\* score_all_issues(work, context)
ScoreAll ==
    /\ calls < MaxCalls
    /\ last_call' = "score_all_issues"
    /\ calls' = calls + 1
    /\ issues' = work
    /\ issues_after' = work
    /\ returned' = score_all_issues(work, context)
    /\ work' = returned'
    /\ UNCHANGED <<context, suppressed_count, verdicts>>
    /\ UNCHANGED pipeline_vars

InitScore ==
    \/ InitDriver({<<f>> : f \in ScoreFindings \cup ExtremeFindings}, Contexts)
    \/ InitDriver({<<PlainIssue(FileA, "complexity", MsgLowRows),
                     PlainIssue(FileA, "security", MsgHighRows)>>}, Contexts)
    \/ InitDriver(ListsUpTo(ScoreCore \cup {RadonLine(FileA, MsgRadonCC)}, 2)
                     \cup ListsUpTo(ScoreCore, MaxIssues),
                  {DefaultContext, Context("Production", FALSE, FALSE)})
NextScore == ScoreAll
SpecScore == InitScore /\ [][NextScore]_vars

(***************************************************************************)
(* Claims about score_all_issues                                           *)
(***************************************************************************)

\* a finding without the keys score_issue writes
Unscored(f) ==
    [f EXCEPT !.risk_score = NoKey, !.risk_impact = NoKey,
              !.risk_likelihood = NoKey, !.risk_fix_cost = NoKey,
              !.risk_scope = NoKey, !.risk_level = NoKey]

Rearrangements(n) ==
    {pi \in [1..n -> 1..n] : \A a, b \in 1..n : a # b => pi[a] # pi[b]}

NonIncreasing(list) ==
    \A p, q \in 1..Len(list) : p < q => ScoreKey(list[p]) >= ScoreKey(list[q])

\* out holds the findings of inp, and findings with equal risk_score stand
\* in out in the order they had in inp
StableRearrangement(inp, out) ==
    /\ Len(out) = Len(inp)
    /\ \E pi \in Rearrangements(Len(out)) :
          /\ \A p \in 1..Len(out) : Unscored(out[p]) = Unscored(inp[pi[p]])
          /\ \A p, q \in 1..Len(out) :
                (p < q /\ ScoreKey(out[p]) = ScoreKey(out[q])) => pi[p] < pi[q]

\* C3: the list score_all_issues returns is non-increasing in risk_score,
\* and findings with equal risk_score keep the relative order they had in
\* the input list.
C3_StableDescending ==
    last_call = "score_all_issues" =>
        /\ NonIncreasing(returned)
        /\ StableRearrangement(issues, returned)

\* C3 witness: the sort moved a finding, and two different findings with
\* the same score came out in their input order
C3_Witness ==
    /\ last_call = "score_all_issues"
    /\ Len(returned) = 3
    /\ Unscored(returned[1]) = Unscored(issues[2])
    /\ Unscored(returned[2]) = Unscored(issues[3])
    /\ Unscored(returned[3]) = Unscored(issues[1])
    /\ Unscored(returned[1]) # Unscored(returned[2])
    /\ ScoreKey(returned[1]) = ScoreKey(returned[2])
    /\ ScoreKey(returned[2]) > ScoreKey(returned[3])

SubScores(f) ==
    <<Get(f.risk_impact, -1), Get(f.risk_likelihood, -1),
      Get(f.risk_fix_cost, -1), Get(f.risk_scope, -1)>>

\* C5: for every finding and context, impact, likelihood, fix_cost and scope
\* are integers from 0 to 10 and risk_score lies between 0 and 10 (0 to 1000
\* hundredths).
C5_ScoreBounds ==
    last_call = "score_all_issues" =>
        \A k \in 1..Len(returned) :
            /\ \A c \in 1..4 : SubScores(returned[k])[c] \in 0..10
            /\ returned[k].risk_score # NoKey
            /\ ScoreKey(returned[k]) \in 0..1000

\* C5 witness: findings were scored with a sub-score at the top of the
\* range and with one at the bottom of the rule tables
C5_Witness ==
    /\ last_call = "score_all_issues"
    /\ Len(returned) = 1
    /\ \/ SubScores(returned[1]) = <<8, 10, 4, 6>>
       \/ SubScores(returned[1])[2] = 1

\* the finding of C6
IsEvalFinding(f) == f.type = Some("security") /\ f.message = MsgEval

\* C6: a security finding with the message "eval() usage - arbitrary code
\* execution" is scored impact 10, likelihood 9, scope 9, fix_cost 4,
\* risk_score 9.1 and level CRITICAL, whatever the context.
C6_EvalScore ==
    last_call = "score_all_issues" =>
        \A k \in 1..Len(returned) :
            IsEvalFinding(returned[k]) =>
                /\ returned[k].risk_impact = Some(10)
                /\ returned[k].risk_likelihood = Some(9)
                /\ returned[k].risk_scope = Some(9)
                /\ returned[k].risk_fix_cost = Some(4)
                /\ returned[k].risk_score = Some(910)
                /\ returned[k].risk_level = Some("CRITICAL")

\* C6 witness: the finding was scored under a context that is not the
\* default one
C6_Witness ==
    /\ last_call = "score_all_issues"
    /\ context = Context("Prototype", TRUE, TRUE)
    /\ Len(returned) = 1
    /\ IsEvalFinding(returned[1])
    /\ returned[1].risk_score = Some(910)

(***************************************************************************)
(* apply_suppressions under the driver                                     *)
(***************************************************************************)

\* apply_suppressions(work, context)
Suppress ==
    /\ calls < MaxCalls
    /\ last_call' = "apply_suppressions"
    /\ calls' = calls + 1
    /\ issues' = work
    /\ issues_after' = work
    /\ verdicts' = [i \in 1..Len(work) |-> should_suppress(context, work[i])]
    /\ suppressed_count' = SuppressionRun(work, context).suppressed_count
    /\ returned' = apply_suppressions(work, context)
    /\ work' = returned'
    /\ UNCHANGED context
    /\ UNCHANGED pipeline_vars

InitSuppress ==
    \/ InitDriver({<<f>> : f \in SuppressFindings}, Contexts)
    \/ InitDriver(ListsUpTo(SuppressCore, MaxIssues),
                  {DefaultContext, Context("Development", TRUE, FALSE)})
NextSuppress == Suppress
SpecSuppress == InitSuppress /\ [][NextSuppress]_vars

(***************************************************************************)
(* Claims about should_suppress and apply_suppressions                     *)
(***************************************************************************)

\* C4: under a fixed context a second pass of apply_suppressions over the
\* list a first pass returned returns that list again.
C4_SuppressIdempotent ==
    last_call = "apply_suppressions" =>
        /\ apply_suppressions(returned, context) = returned
        /\ calls >= 2 => returned = issues

\* C4 witness: a pass suppressed one finding and kept another, and a pass
\* over what it returned keeps all of it
C4_Witness ==
    /\ last_call = "apply_suppressions"
    /\ calls = 1
    /\ suppressed_count >= 1
    /\ Len(returned) >= 1
    /\ apply_suppressions(returned, context) = returned

\* the reason of the earliest rule that matches, in the order performance,
\* domain, generated code, prototype style, test code; "" when none does
EarliestReason(ctx, issue) ==
    IF suppress_performance_complexity(ctx, issue) # ""
    THEN suppress_performance_complexity(ctx, issue)
    ELSE IF suppress_domain_complexity(ctx, issue) # ""
    THEN suppress_domain_complexity(ctx, issue)
    ELSE IF suppress_generated_code(ctx, issue) # ""
    THEN suppress_generated_code(ctx, issue)
    ELSE IF suppress_prototype_style(ctx, issue) # ""
    THEN suppress_prototype_style(ctx, issue)
    ELSE suppress_test_code_issues(ctx, issue)

\* how many of the five rules match the issue
MatchingRules(ctx, issue) ==
    Cardinality({r \in 1..5 : RuleReasons(ctx, issue)[r] # ""})

\* C7: should_suppress returns (True, reason of the earliest matching rule)
\* in the order performance, domain, generated code, prototype style, test
\* code, and (False, "") exactly when no rule matches.
C7_RuleOrder ==
    last_call = "apply_suppressions" =>
        /\ Len(verdicts) = Len(issues)
        /\ \A i \in 1..Len(issues) :
              /\ verdicts[i][2] = EarliestReason(context, issues[i])
              /\ verdicts[i][1] <=> (MatchingRules(context, issues[i]) > 0)
              /\ (verdicts[i] = <<FALSE, "">>) <=> (MatchingRules(context, issues[i]) = 0)

\* C7 witness: all five rules match one finding and the first one's reason
\* was returned
C7_Witness ==
    /\ last_call = "apply_suppressions"
    /\ Len(issues) = 1
    /\ MatchingRules(context, issues[1]) = 5
    /\ verdicts[1] = <<TRUE, "Performance-critical code - complexity acceptable">>

\* the entries of list no rule matches, in their order
Unmatched(ctx, list) ==
    SelectSeq(list, LAMBDA f : MatchingRules(ctx, f) = 0)

\* C8: apply_suppressions returns the findings of its input that no rule
\* matches, as they were and in their input order, and the suppressed count
\* plus the length of the returned list is the length of the input.
C8_SuppressFrame ==
    last_call = "apply_suppressions" =>
        /\ returned = Unmatched(context, issues)
        /\ issues_after = issues
        /\ suppressed_count + Len(returned) = Len(issues)

\* C8 witness: of three findings the middle one was suppressed
C8_Witness ==
    /\ last_call = "apply_suppressions"
    /\ Len(issues) = 3
    /\ suppressed_count = 1
    /\ returned = <<issues[1], issues[3]>>
    /\ issues[1] # issues[3]

(***************************************************************************)
(* A run of a pipeline: pipeline.invoke(initial_state).  The graph runs in *)
(* steps.  The nodes of a step run side by side on the channels as the     *)
(* step found them and return in any order; when all have returned, what   *)
(* they returned is applied to the channels and the nodes their edges lead *)
(* to make up the next step.                                               *)
(***************************************************************************)

NoDriver ==
    /\ work = <<>>
    /\ context = DefaultContext
    /\ last_call = ""
    /\ calls = 0
    /\ issues = <<>>
    /\ issues_after = <<>>
    /\ returned = <<>>
    /\ suppressed_count = 0
    /\ verdicts = <<>>

Init ==
    /\ pipeline \in {"complete", "production"}
    /\ merge_order \in MergeOrders(pipeline)
    /\ \E code_files \in Corpora : state = InitialState(pipeline, code_files)
    /\ active = {EntryPoint(pipeline)}
    /\ writes = <<>>
    /\ started = [n \in NodeSet(pipeline) |-> IF n = EntryPoint(pipeline) THEN 1 ELSE 0]
    /\ completed = [n \in NodeSet(pipeline) |-> 0]
    /\ returned_by = [d \in DetectorsOf(pipeline) |-> <<>>]
    /\ join_input = <<>>
    /\ raised = ""
    /\ workspace = "none"
    /\ NoDriver

\* node n, running in this step, returns
NodeReturns(n) ==
    /\ raised = ""
    /\ n \in active \ DOMAIN writes
    /\ \E choice \in ChoicesOf(pipeline, n, state) :
          /\ writes' = (n :> NodeReturn(pipeline, n, state, choice)) @@ writes
          /\ state' = ChannelsAfterNode(pipeline, n, state, choice)
          /\ returned_by' = IF n \in DetectorsOf(pipeline)
                            THEN [returned_by EXCEPT ![n] = choice.issues]
                            ELSE returned_by
    /\ completed' = [completed EXCEPT ![n] = @ + 1]
    /\ workspace' = WorkspaceAfterNode(pipeline, n, workspace)
    /\ UNCHANGED <<pipeline, merge_order, active, started, join_input, raised>>
    /\ UNCHANGED driver_vars

\* the detector nodes whose detector writes the code of a file to a
\* temporary file ahead of its try block
TempFileWriters(p) ==
    IF p = "complete"
    THEN {"static_analysis", "security_scan", "complexity_analysis"}
    ELSE {"security_scan"}

\* node n, running in this step, raises: writing the temporary file fails
\* (the code cannot be encoded, the disk is full); no node function and no
\* caller of invoke catches it, so the run ends with the exception, the
\* writes of the step are dropped and the state stays as it was
NodeRaises(n) ==
    /\ raised = ""
    /\ n \in active \ DOMAIN writes
    /\ n \in TempFileWriters(pipeline)
    /\ state.code_files # {}
    /\ raised' = n
    /\ UNCHANGED <<pipeline, merge_order, state, active, writes, started,
                   completed, returned_by, join_input, workspace>>
    /\ UNCHANGED driver_vars

\* mutant: the step ends as soon as one node has returned
StepComplete_AnyReturned == DOMAIN writes # {}

\* every node of the step has returned
StepComplete == active # {} /\ DOMAIN writes = active

\* the step ends: the writes are applied and the next step's nodes start
EndStep ==
    /\ raised = ""
    /\ StepComplete
    /\ LET finished == DOMAIN writes
           next == UNION {Successors(pipeline, n) : n \in finished} \ {END}
       IN /\ state' = ApplyWrites(state, writes, merge_order)
          /\ active' = (active \ finished) \cup next
          /\ started' = [n \in NodeSet(pipeline) |->
                            started[n] + IF n \in next THEN 1 ELSE 0]
          /\ join_input' = IF JoinOf(pipeline) \in next
                           THEN state'.raw_issues ELSE join_input
          /\ workspace' = IF active' = {}
                          THEN WorkspaceAfterInvoke(pipeline, workspace)
                          ELSE workspace
    /\ writes' = <<>>
    /\ UNCHANGED <<pipeline, merge_order, completed, returned_by, raised>>
    /\ UNCHANGED driver_vars

Next ==
    \/ \E n \in NodeSet(pipeline) : NodeReturns(n)
    \/ \E n \in NodeSet(pipeline) : NodeRaises(n)
    \/ EndStep

Spec == Init /\ [][Next]_vars

\* the run is over: invoke returned the final state
RunFinished == pipeline # "none" /\ active = {}

(***************************************************************************)
(* Claims about the join of the detector nodes                             *)
(***************************************************************************)

\* C9: in each pipeline the join node (risk_scoring in the complete one,
\* deduplication in the production one) starts only after every detector
\* node with an edge to it has returned, it never starts a second time, and
\* a run that reaches the end has run it exactly once.
C9_JoinAfterAllOnce ==
    pipeline # "none" =>
        LET join == JoinOf(pipeline)
        IN /\ started[join] <= 1
           /\ completed[join] <= started[join]
           /\ started[join] >= 1 =>
                 \A d \in Predecessors(pipeline, join) : completed[d] >= 1
           /\ RunFinished => (started[join] = 1 /\ completed[join] = 1)

\* C9 witness: the join of the seven detectors of the complete pipeline is
\* running, after all seven returned
C9_Witness ==
    /\ pipeline = "complete"
    /\ "risk_scoring" \in active
    /\ started["risk_scoring"] = 1
    /\ completed["risk_scoring"] = 0
    /\ Cardinality(Predecessors("complete", "risk_scoring")) = 7
    /\ \A d \in Predecessors("complete", "risk_scoring") : completed[d] = 1

\* the bag of the entries of a list
BagOfList(list) ==
    [x \in {list[i] : i \in 1..Len(list)} |->
        Cardinality({i \in 1..Len(list) : list[i] = x})]

\* the detector nodes in the order of their declaration
DetectorSeq(p) == SelectSeq(NodesOf(p), LAMBDA n : n \in DetectorsOf(p))

\* the bag of everything the detectors from the i-th on returned
RECURSIVE ReturnedBag(_, _)
ReturnedBag(detectors, i) ==
    IF i > Len(detectors) THEN EmptyBag
    ELSE BagOfList(returned_by[detectors[i]]) (+) ReturnedBag(detectors, i + 1)

\* C10: in whatever order the detector nodes return, the raw_issues the
\* join node is given holds each finding as many times as the detectors
\* returned it: nothing is lost and nothing is there twice.
C10_JoinSeesAllFindings ==
    (pipeline # "none" /\ started[JoinOf(pipeline)] >= 1) =>
        BagOfList(join_input) = ReturnedBag(DetectorSeq(pipeline), 1)

\* C10 witness: every detector of the complete pipeline returned findings,
\* one of them the same finding twice, and the join got all ten
C10_Witness ==
    /\ pipeline = "complete"
    /\ started["risk_scoring"] = 1
    /\ \A d \in DetectorsOf("complete") : returned_by[d] # <<>>
    /\ Len(join_input) = 10
    /\ \E i, j \in 1..Len(join_input) : i # j /\ join_input[i] = join_input[j]

(***************************************************************************)
(* Claims about the order of the final lists                               *)
(***************************************************************************)

\* what the detectors returned, put together in the given order of nodes
RECURSIVE ConcatReturned(_, _)
ConcatReturned(order, i) ==
    IF i > Len(order) THEN <<>>
    ELSE (IF order[i] \in DOMAIN returned_by THEN returned_by[order[i]] ELSE <<>>)
         \o ConcatReturned(order, i + 1)

\* the findings the run leaves after suppression when the detectors'
\* findings are put together in the given order: scored and stably sorted,
\* then filtered (in the production pipeline deduplicated first)
ExpectedFiltered(order) ==
    LET raw == ConcatReturned(order, 1)
        ctx == state.context
    IN IF pipeline = "complete"
       THEN apply_suppressions(score_all_issues(raw, ctx), ctx)
       ELSE apply_suppressions(
                score_all_issues(process_issues_pipeline(raw), ctx), ctx)

\* a list without the analyses rag_enhancement wrote into its dicts
WithoutRag(list) ==
    [i \in 1..Len(list) |-> [list[i] EXCEPT !.rag_analysis = NoKey]]

C12_FailureContained ==
    pipeline # "none" => raised \notin DetectorsOf(pipeline)

AnalyzeContext ==
    /\ calls < MaxCalls
    /\ last_call' = "analyze_context"
    /\ calls' = calls + 1
    /\ issues' = work
    /\ issues_after' = work
    /\ returned' = analyze_context(work)
    /\ UNCHANGED <<work, context, suppressed_count, verdicts>>
    /\ UNCHANGED pipeline_vars

InitContext == InitDriver(ContextInputs, {DefaultContext})
NextContext == AnalyzeContext
SpecContext == InitContext /\ [][NextContext]_vars

\* C14: analyze_context returns the default context (stage 'Development',
\* is_performance_critical False, has_domain_complexity False,
\* risk_tolerance 'medium') when no API key is configured or the request
\* raises, and every context it returns has all keys of the default context.
C14_DefaultContext ==
    last_call = "analyze_context" =>
        /\ (~issues.api_key \/ issues.raises) =>
              /\ returned = get_default_context
              /\ returned.stage = <<"D","e","v","e","l","o","p","m","e","n","t">>
              /\ returned.is_performance_critical = FALSE
              /\ returned.has_domain_complexity = FALSE
              /\ returned.risk_tolerance = <<"m","e","d","i","u","m">>
        /\ DOMAIN get_default_context \subseteq DOMAIN returned

\* C14 witness: a key is configured and the request raised
C14_Witness ==
    /\ last_call = "analyze_context"
    /\ issues.api_key
    /\ issues.raises
    /\ issues.analysis # <<>>
    /\ returned = get_default_context

\* a context parsed from an answer differs from the default and has its keys
C14_ParsedWitness ==
    /\ last_call = "analyze_context"
    /\ issues.api_key
    /\ ~issues.raises
    /\ returned.stage = <<"P","r","o","t","o","t","y","p","e">>
    /\ returned.risk_tolerance = <<"h","i","g","h">>
    /\ DOMAIN returned = DOMAIN get_default_context

(***************************************************************************)
(* Claims about the context of a run                                       *)
(***************************************************************************)

\* the step of context_analysis is over: its context is in the channel
ContextProduced ==
    /\ pipeline # "none"
    /\ completed["context_analysis"] = 1
    /\ "context_analysis" \notin active

\* C15: once context_analysis has produced the context, no later step of
\* the run (detectors, deduplication, scoring, suppression, enhancement,
\* test generation) changes any field of it.
C15_ContextFrozen ==
    [][ContextProduced => state'.context = state.context]_vars

\* C15 witness: a run that was given a context other than the default one
\* is over and still holds it, after findings were scored and suppressed
C15_Witness ==
    /\ ContextProduced
    /\ RunFinished
    /\ state.context = Context("Prototype", FALSE, TRUE)
    /\ state.scored_issues # <<>>
    /\ Len(state.filtered_issues) < Len(state.scored_issues)

(***************************************************************************)
(* Claims about the risk level and the score formula                       *)
(***************************************************************************)

\* the level the thresholds give for a score held in hundredths
LevelOfStored(hundredths) ==
    IF hundredths >= 800 THEN "CRITICAL"
    ELSE IF hundredths >= 600 THEN "HIGH"
    ELSE IF hundredths >= 400 THEN "MEDIUM"
    ELSE IF hundredths >= 200 THEN "LOW"
    ELSE "MINIMAL"

\* C16: the risk_level of every scored finding is the one the stored
\* risk_score gives with inclusive lower bounds: CRITICAL from 8, HIGH from
\* 6, MEDIUM from 4, LOW from 2, MINIMAL below 2.
C16_LevelFromStoredScore ==
    last_call = "score_all_issues" =>
        \A i \in 1..Len(returned) :
            Get(returned[i].risk_level, "") = LevelOfStored(ScoreKey(returned[i]))

(***************************************************************************)
(* Claims about findings without a line number                             *)
(***************************************************************************)

\* the finding has no line number: no 'line' key, or 'line': None
LacksLine(f) == f.line = NoKey \/ f.line = Some(PyNone)

\* C17: two findings on the same file with the same normalized message that
\* both lack a line number (key absent, or None) share the line part 0 of
\* the fingerprint, so deduplicate_issues never returns both.
C17_NoLineMerged ==
    last_call = "deduplicate_issues" =>
        \A a, b \in 1..Len(returned) :
            (/\ a < b
             /\ returned[a].file = returned[b].file
             /\ LacksLine(returned[a])
             /\ LacksLine(returned[b]))
            => NormalizedMessage(returned[a]) # NormalizedMessage(returned[b])

(***************************************************************************)
(* Claims about the metadata of merged records                             *)
(***************************************************************************)

NoRepeats(list) == \A a, b \in 1..Len(list) : a # b => list[a] # list[b]

\* C18: a record duplicates were merged into names no detector twice in
\* detected_by, and its confidence is the length of detected_by, however
\* many duplicates were merged.
C18_DetectedByDistinct ==
    last_call = "deduplicate_issues" =>
        \A k \in 1..Len(returned) :
            returned[k].detected_by # NoKey =>
                /\ NoRepeats(DetectedBy(returned[k]))
                /\ returned[k].confidence = Some(Len(DetectedBy(returned[k])))

\* C18 witness: three findings were merged into one record, two of them
\* from the same detector, and the record names two detectors
C18_Witness ==
    /\ last_call = "deduplicate_issues"
    /\ Len(issues) = 3
    /\ Len(returned) = 1
    /\ ToolOf(issues[2]) = ToolOf(issues[3])
    /\ ToolOf(issues[1]) # ToolOf(issues[2])
    /\ DetectedBy(returned[1]) = <<ToolOf(issues[1]), ToolOf(issues[2])>>
    /\ returned[1].confidence = Some(2)

\* C19: the stored risk_score of every scored finding is
\* impact*0.4 + likelihood*0.3 + scope*0.2 + (10 - fix_cost)*0.1 of the
\* sub-scores stored on the same finding, rounded to 2 decimals; that is,
\* 10 * risk_score = 4*impact + 3*likelihood + 2*scope + 10 - fix_cost.
C19_ScoreFormula ==
    last_call = "score_all_issues" =>
        \A k \in 1..Len(returned) :
            LET f == returned[k]
                impact == Get(f.risk_impact, -1)
                likelihood == Get(f.risk_likelihood, -1)
                scope == Get(f.risk_scope, -1)
                fix_cost == Get(f.risk_fix_cost, -1)
            IN /\ f.risk_score # NoKey
               /\ impact >= 0 /\ likelihood >= 0 /\ scope >= 0 /\ fix_cost >= 0
               /\ ScoreKey(f) =
                     RoundHundredths(WeightedSum(impact, likelihood, scope, fix_cost))
               /\ ScoreKey(f) =
                     10 * (4 * impact + 3 * likelihood + 2 * scope + 10 - fix_cost)

\* C19 witness: a finding was scored whose float sum is not the exact sum
\* (4, 10, 3, 2 give 5.999999999999999) and whose stored score is 6.0
C19_Witness ==
    /\ last_call = "score_all_issues"
    /\ \E k \in 1..Len(returned) :
          /\ SubScores(returned[k]) = <<4, 10, 2, 3>>
          /\ ScoreKey(returned[k]) = 600
          /\ ~DoubleGE(WeightedSum(4, 10, 3, 2), IntToDouble(6))

(***************************************************************************)
(* Claims about the impact sub-score                                       *)
(***************************************************************************)

Mentions(f, word) == Contains(StrLower(f.message), word)

\* C20 (as amended): the impact stored on a scored finding follows the
\* table: a security finding that mentions 'sql injection' or 'eval' has
\* 10, any other security finding 7 or 8; a semantic finding that mentions
\* 'crash' or 'error' has 7, any other semantic finding 5; a complexity
\* finding has 6 when the context's stage is 'Production' and 3 otherwise;
\* every other finding has 4.
C20_ImpactTable ==
    last_call = "score_all_issues" =>
        \A k \in 1..Len(returned) :
            LET f == returned[k]
                impact == Get(f.risk_impact, -1)
            IN IF TypeOf(f) = "security"
               THEN IF Mentions(f, <<"s","q","l"," ","i","n","j","e","c","t","i","o","n">>) \/ Mentions(f, <<"e","v","a","l">>)
                    THEN impact = 10
                    ELSE impact \in {7, 8}
               ELSE IF TypeOf(f) = "semantic"
               THEN IF Mentions(f, <<"c","r","a","s","h">>) \/ Mentions(f, <<"e","r","r","o","r">>)
                    THEN impact = 7
                    ELSE impact = 5
               ELSE IF TypeOf(f) = "complexity"
               THEN impact = IF context.stage = "Production" THEN 6 ELSE 3
               ELSE impact = 4

\* C20 as stated: any mention of injection gives a security finding 10, and
\* a semantic finding that mentions neither crash nor error has the
\* default 4
C20_ImpactTableAsStated ==
    last_call = "score_all_issues" =>
        \A k \in 1..Len(returned) :
            LET f == returned[k]
                impact == Get(f.risk_impact, -1)
            IN IF TypeOf(f) = "security"
               THEN IF Mentions(f, <<"i","n","j","e","c","t","i","o","n">>) \/ Mentions(f, <<"e","v","a","l">>)
                    THEN impact = 10
                    ELSE impact \in {7, 8}
               ELSE IF TypeOf(f) = "semantic"
                       /\ (Mentions(f, <<"c","r","a","s","h">>) \/ Mentions(f, <<"e","r","r","o","r">>))
               THEN impact = 7
               ELSE IF TypeOf(f) = "complexity"
               THEN impact = IF context.stage = "Production" THEN 6 ELSE 3
               ELSE impact = 4

\* C20 witness: a semantic finding that mentions neither crash nor error was
\* scored and has impact 5
C20_Witness ==
    /\ last_call = "score_all_issues"
    /\ \E k \in 1..Len(returned) :
          /\ TypeOf(returned[k]) = "semantic"
          /\ ~Mentions(returned[k], <<"c","r","a","s","h">>)
          /\ ~Mentions(returned[k], <<"e","r","r","o","r">>)
          /\ returned[k].risk_impact = Some(5)

(***************************************************************************)
(* Claims about the likelihood, fix-cost and scope sub-scores              *)
(***************************************************************************)

\* C21 (as amended): the likelihood stored on a scored finding is that of
\* the first row its lower-cased message matches: 'hardcoded' or 'secret'
\* 10, 'eval' or 'sql injection' 9, 'division by zero' 7, 'xss' 6,
\* 'docstring' 1, and 5 when it matches none.
C21_LikelihoodTable ==
    last_call = "score_all_issues" =>
        \A k \in 1..Len(returned) :
            LET f == returned[k]
                likelihood == Get(f.risk_likelihood, -1)
            IN IF Mentions(f, <<"h","a","r","d","c","o","d","e","d">>) \/ Mentions(f, <<"s","e","c","r","e","t">>)
               THEN likelihood = 10
               ELSE IF Mentions(f, <<"e","v","a","l">>) \/ Mentions(f, <<"s","q","l"," ","i","n","j","e","c","t","i","o","n">>)
               THEN likelihood = 9
               ELSE IF Mentions(f, <<"d","i","v","i","s","i","o","n"," ","b","y"," ","z","e","r","o">>) THEN likelihood = 7
               ELSE IF Mentions(f, <<"x","s","s">>) THEN likelihood = 6
               ELSE IF Mentions(f, <<"d","o","c","s","t","r","i","n","g">>) THEN likelihood = 1
               ELSE likelihood = 5

\* C21 as stated: any mention of injection is in the row that gives 9
C21_LikelihoodTableAsStated ==
    last_call = "score_all_issues" =>
        \A k \in 1..Len(returned) :
            LET f == returned[k]
                likelihood == Get(f.risk_likelihood, -1)
            IN IF Mentions(f, <<"h","a","r","d","c","o","d","e","d">>) \/ Mentions(f, <<"s","e","c","r","e","t">>)
               THEN likelihood = 10
               ELSE IF Mentions(f, <<"e","v","a","l">>) \/ Mentions(f, <<"i","n","j","e","c","t","i","o","n">>)
               THEN likelihood = 9
               ELSE IF Mentions(f, <<"d","i","v","i","s","i","o","n"," ","b","y"," ","z","e","r","o">>) THEN likelihood = 7
               ELSE IF Mentions(f, <<"x","s","s">>) THEN likelihood = 6
               ELSE IF Mentions(f, <<"d","o","c","s","t","r","i","n","g">>) THEN likelihood = 1
               ELSE likelihood = 5

\* C21 witness: a finding that mentions an injection other than SQL, and no
\* keyword of another row, was scored with the default 5
C21_Witness ==
    /\ last_call = "score_all_issues"
    /\ \E k \in 1..Len(returned) :
          /\ Mentions(returned[k], <<"i","n","j","e","c","t","i","o","n">>)
          /\ ~Mentions(returned[k], <<"s","q","l"," ","i","n","j","e","c","t","i","o","n">>)
          /\ returned[k].risk_likelihood = Some(5)

\* C22: the fix cost stored on a scored finding is 9 when the message
\* mentions 'refactor', whatever the type; otherwise, for a complexity
\* finding, 7 when it mentions 'long function' and 5 if not; otherwise 1 for
\* 'docstring', 2 for 'naming', and 4 by default.
C22_FixCostTable ==
    last_call = "score_all_issues" =>
        \A k \in 1..Len(returned) :
            LET f == returned[k]
                fix_cost == Get(f.risk_fix_cost, -1)
            IN IF Mentions(f, <<"r","e","f","a","c","t","o","r">>) THEN fix_cost = 9
               ELSE IF TypeOf(f) = "complexity"
               THEN fix_cost = IF Mentions(f, <<"l","o","n","g"," ","f","u","n","c","t","i","o","n">>) THEN 7 ELSE 5
               ELSE IF Mentions(f, <<"d","o","c","s","t","r","i","n","g">>) THEN fix_cost = 1
               ELSE IF Mentions(f, <<"n","a","m","i","n","g">>) THEN fix_cost = 2
               ELSE fix_cost = 4

\* C22 witness: a complexity finding that mentions refactor was scored
C22_Witness ==
    /\ last_call = "score_all_issues"
    /\ \E k \in 1..Len(returned) :
          /\ TypeOf(returned[k]) = "complexity"
          /\ Mentions(returned[k], <<"r","e","f","a","c","t","o","r">>)
          /\ Mentions(returned[k], <<"d","o","c","s","t","r","i","n","g">>)
          /\ returned[k].risk_fix_cost = Some(9)

\* C23: the scope stored on a scored finding is, for a security finding, 9
\* when the message mentions 'sql' or 'eval' and 6 otherwise; for any other
\* finding 3 when the message mentions 'function' and 5 by default.
C23_ScopeTable ==
    last_call = "score_all_issues" =>
        \A k \in 1..Len(returned) :
            LET f == returned[k]
                scope == Get(f.risk_scope, -1)
            IN IF TypeOf(f) = "security"
               THEN scope = IF Mentions(f, <<"s","q","l">>) \/ Mentions(f, <<"e","v","a","l">>) THEN 9 ELSE 6
               ELSE scope = IF Mentions(f, <<"f","u","n","c","t","i","o","n">>) THEN 3 ELSE 5

\* C23 witness: a security finding that mentions function and eval was
\* scored with scope 9
C23_Witness ==
    /\ last_call = "score_all_issues"
    /\ \E k \in 1..Len(returned) :
          /\ TypeOf(returned[k]) = "security"
          /\ Mentions(returned[k], <<"f","u","n","c","t","i","o","n">>)
          /\ returned[k].risk_scope = Some(9)

(***************************************************************************)
(* The domain rule and the finding's type                                  *)
(***************************************************************************)

\* the context, the file and the message meet the domain rule's conditions
DomainConditions(ctx, f) ==
    /\ ctx.has_domain_complexity
    /\ ContainsAny(LowerFile(f), DomainMarkers)
    /\ Mentions(f, KwComplexity)

\* C24: a finding of type complexity is suppressed whenever the context has
\* has_domain_complexity set, its file path contains one of the markers
\* parser, model, crypto or transform and its message mentions complexity.
C24_DomainSuppressed ==
    last_call = "apply_suppressions" =>
        \A i \in 1..Len(issues) :
            (DomainConditions(context, issues[i])
                /\ Get(issues[i].type, "") = "complexity")
            => /\ verdicts[i][1]
               /\ ~InList(issues[i], returned)

\* C24 as stated: the same, whatever the finding's type
C24_DomainSuppressedAnyType ==
    last_call = "apply_suppressions" =>
        \A i \in 1..Len(issues) :
            DomainConditions(context, issues[i])
            => /\ verdicts[i][1]
               /\ ~InList(issues[i], returned)

\* C24 witness: a complexity finding on a parser file was suppressed with the
\* domain rule's reason
C24_Witness ==
    /\ last_call = "apply_suppressions"
    /\ Len(issues) = 1
    /\ DomainConditions(context, issues[1])
    /\ Get(issues[1].type, "") = "complexity"
    /\ verdicts[1] = <<TRUE, "Domain-heavy code - complexity expected">>
    /\ returned = <<>>

(***************************************************************************)
(* raw_issues after the join                                               *)
(***************************************************************************)

\* the entries of list as their detectors reported them: the fields the
\* later stages write into an entry are left aside, so that two lists are
\* equal when they hold the same entries in the same order
AsReported(list) ==
    [i \in 1..Len(list) |->
        <<list[i].origin, list[i].file, list[i].line, list[i].type,
          list[i].tool, list[i].message>>]

\* C25: raw_issues is written only by the merge at the join: once the join
\* node has started, no later stage adds, removes or repeats entries, so
\* raw_issues stays what the join was given, up to the final state.
C25_RawIssuesFrozenAfterJoin ==
    (pipeline # "none" /\ started[JoinOf(pipeline)] >= 1) =>
        AsReported(state.raw_issues) = AsReported(join_input)

(***************************************************************************)
(* The order of the stages                                                 *)
(***************************************************************************)

\* node a has returned whenever node b has started
Before(a, b) == started[b] >= 1 => completed[a] >= 1

\* no two entries of list have one fingerprint
DistinctFingerprints(list) ==
    \A i, j \in 1..Len(list) :
        i # j => create_fingerprint(list[i]) # create_fingerprint(list[j])

\* the stages after the detectors start one after the other
PostProcessingInOrder ==
    /\ \A d \in DetectorsOf(pipeline) :
          /\ Before("context_analysis", d)
          /\ Before(d, JoinOf(pipeline))
    /\ Before("risk_scoring", "suppression")
    /\ Before("suppression", "rag_enhancement")

\* C26: in every run the stages execute in the order context production,
\* detectors, join, deduplication, scoring, suppression, consumers: when the
\* scorer starts, deduplication has returned, and the findings the scorer is
\* given are deduplicated ones.
C26_ScorerAfterDeduplication ==
    pipeline # "none" =>
        /\ PostProcessingInOrder
        /\ started["risk_scoring"] >= 1 =>
              /\ "deduplication" \in NodeSet(pipeline)
              /\ completed["deduplication"] >= 1
        /\ "risk_scoring" \in active =>
              DistinctFingerprints(IF pipeline = "complete"
                                   THEN state.raw_issues
                                   ELSE state.deduplicated_issues)

(***************************************************************************)
(* The workspace when the run ends                                         *)
(***************************************************************************)

\* run_production_pipeline has ended: it returned the final state, or the
\* exception of a node went through invoke and through it
RunEnded == pipeline = "production" /\ (RunFinished \/ raised # "")

\* C27: whenever run_production_pipeline ends, by returning or because a
\* stage raised an exception, the workspace directory made for the run has
\* been removed.
C27_WorkspaceCleanedOnEveryExit ==
    RunEnded => workspace # "created"

(***************************************************************************)
(* The range of the score                                                  *)
(***************************************************************************)

\* C28: for every finding type, message and context the score RiskScorer
\* computes lies between 2.2 and 9.7 inclusive (220 to 970 hundredths), so
\* the level MINIMAL is never assigned.
C28_ScoreRange ==
    last_call = "score_all_issues" =>
        \A k \in 1..Len(returned) :
            /\ ScoreKey(returned[k]) \in 220..970
            /\ returned[k].risk_level \in
                  {Some("LOW"), Some("MEDIUM"), Some("HIGH"), Some("CRITICAL")}

\* C28 witness: the two ends of the range were reached in one call, 9.7 for
\* a security finding and 2.2 for a complexity finding outside production
C28_Witness ==
    /\ last_call = "score_all_issues"
    /\ Len(returned) = 2
    /\ ScoreKey(returned[1]) = 970
    /\ returned[1].risk_level = Some("CRITICAL")
    /\ ScoreKey(returned[2]) = 220
    /\ returned[2].risk_level = Some("LOW")
    /\ SubScores(returned[2]) = <<3, 1, 9, 3>>

(***************************************************************************)
(* process_issues_pipeline under the driver                                *)
(***************************************************************************)

MsgUnusedImport == <<"U","n","u","s","e","d"," ","i","m","p","o","r","t"," ","s","u","b","p","r","o","c","e","s","s"," ","w","i","d","e","n","s"," ","t","h","e"," ","a","t","t","a","c","k"," ","s","u","r","f","a","c","e">>
MsgClaudeCriticalNoise == <<"C","r","i","t","i","c","a","l",":"," ","t","r","a","i","l","i","n","g"," ","w","h","i","t","e","s","p","a","c","e"," ","b","r","e","a","k","s"," ","t","h","e"," ","h","e","r","e","d","o","c">>
MsgClaudeCritical == <<"C","r","i","t","i","c","a","l",":"," ","t","h","e"," ","r","e","t","r","y"," ","l","o","o","p"," ","n","e","v","e","r"," ","e","n","d","s">>

\* findings as the detectors report them, without risk_score: complexity
\* findings, findings with a noise pattern (of type static_analysis,
\* security and semantic), and findings of the other kinds, two of them
\* with one fingerprint
ProcessFindings ==
    {RadonLine(FileA, MsgRadonCC),
     ComplexityPattern(FileA, MsgLongFunction),
     Flake8Line(FileA, PyInt(9), MsgFlake8Long),
     PlainIssue(FileA, "security", MsgUnusedImport),
     ClaudeEnhanced(FileA, PyInt(3), MsgClaudeCriticalNoise),
     ClaudeEnhanced(FileA, PyInt(3), MsgClaudeCritical),
     ClaudeLine(FileA, MsgClaudePlain),
     PylintLine(FileA, MsgPylintDocstring),
     SecretPattern(FileA, 3, MsgPassword),
     Flake8Line(FileA, PyInt(3), MsgPasswordNumbered)}

ProcessCore ==
    {RadonLine(FileA, MsgRadonCC),
     PlainIssue(FileA, "security", MsgUnusedImport),
     SecretPattern(FileA, 3, MsgPassword),
     Flake8Line(FileA, PyInt(3), MsgPasswordNumbered)}

\* process_issues_pipeline(work)
ProcessIssues ==
    /\ calls < MaxCalls
    /\ last_call' = "process_issues_pipeline"
    /\ calls' = calls + 1
    /\ issues' = work
    /\ issues_after' = IssuesAfterDedup(work)
    /\ returned' = process_issues_pipeline(work)
    /\ work' = returned'
    /\ UNCHANGED <<context, suppressed_count, verdicts>>
    /\ UNCHANGED pipeline_vars

InitProcess ==
    InitDriver(ListsUpTo(ProcessFindings, 2) \cup ListsUpTo(ProcessCore, MaxIssues),
               {DefaultContext})
NextProcess == ProcessIssues
SpecProcess == InitProcess /\ [][NextProcess]_vars

\* the message of f contains one of the noise patterns
HasNoisePattern(f) == ContainsAny(StrLower(f.message), NoisePatterns)

\* f is a finding the claim has discarded
Discarded(f) == Get(f.type, "") = "complexity" \/ HasNoisePattern(f)

\* C29: given findings without risk_score, as the deduplication stage of
\* the production pipeline gets them, process_issues_pipeline discards every
\* finding of type complexity and every finding whose message contains a
\* noise pattern, security findings included, and returns every other
\* deduplicated finding, in the order deduplication left them in.
C29_NoiseFilterBeforeScores ==
    (last_call = "process_issues_pipeline"
        /\ \A i \in 1..Len(issues) : issues[i].risk_score = NoKey)
    => returned = SelectSeq(deduplicate_issues(issues), LAMBDA f : ~Discarded(f))

\* C29 witness: a complexity finding and a security finding with a noise
\* pattern were discarded and the merged record of two others was returned
C29_Witness ==
    /\ last_call = "process_issues_pipeline"
    /\ Len(issues) = 3
    /\ \E i, j \in 1..3 :
          /\ issues[i].type = Some("complexity")
          /\ issues[j].type = Some("security")
          /\ HasNoisePattern(issues[j])
    /\ Len(returned) = 1
    /\ returned[1].risk_score = NoKey
    /\ ~Discarded(returned[1])

(***************************************************************************)
(* The list deduplicate_issues returns                                     *)
(***************************************************************************)

\* the positions of list at which a fingerprint occurs for the first time
FirstOccurrences(list) ==
    {i \in 1..Len(list) :
        \A j \in 1..(i - 1) :
            create_fingerprint(list[j]) # create_fingerprint(list[i])}

\* the findings of list at those positions, in their order
FirstSeen(list) ==
    LET first == FirstOccurrences(list)
    IN [k \in 1..Cardinality(first) |->
          list[CHOOSE i \in first : Cardinality({j \in first : j <= i}) = k]]

\* The driver passes the list one call returned to the next call, so from
\* the second call on `issues` is a list deduplicate_issues returned.
\* C30: the list deduplicate_issues returns has pairwise distinct
\* fingerprints, holds the canonical records in the order of their first
\* occurrence in the input, is never longer than the input, and passing it
\* to deduplicate_issues again returns the same list, detected_by and
\* confidence unchanged.
C30_DedupCanonicalIdempotent ==
    last_call = "deduplicate_issues" =>
        /\ DistinctFingerprints(returned)
        /\ Len(returned) = Cardinality(FirstOccurrences(issues))
        /\ AsReported(returned) = AsReported(FirstSeen(issues))
        /\ Len(returned) <= Len(issues)
        /\ calls >= 2 => (returned = issues /\ issues_after = issues)

\* C30 witness: of three findings the first and the third were merged, the
\* record of the first comes ahead of the second, and the call on the
\* returned list was made and changed nothing
C30_Witness ==
    /\ last_call = "deduplicate_issues"
    /\ calls = 2
    /\ Len(returned) = 2
    /\ returned = issues
    /\ returned[1].confidence = Some(2)
    /\ returned[2].confidence = NoKey

====
